---- MODULE Spec2Model ----
(***************************************************************************)
(* Model of sim-read (src/main.py): the SIMReader session, its APDU        *)
(* exchanges with the card (read_all, select_usim and the select/read      *)
(* helpers) and the byte decoders.  The card is the environment: every     *)
(* response (data, SW1, SW2) is chosen from a small catalogue.             *)
(*                                                                         *)
(* Python values: a byte list is a sequence of 0..255, a str is a sequence *)
(* of code points, None / a raised IndexError / a str / a dict are tagged  *)
(* records (NoneV, RaiseV, StrV, dicts).                                   *)
(***************************************************************************)
EXTENDS Integers, Sequences, FiniteSets, TLC

----------------------------------------------------------------------------
(* Python primitives *)

Min(a, b) == IF a < b THEN a ELSE b

Max(a, b) == IF a > b THEN a ELSE b

LowNibble(b) == b % 16

HighNibble(b) == (b \div 16) % 16

\* seq[i] of Python (0-based); InRange is the condition under which it does
\* not raise IndexError (no negative index occurs in the source)
InRange(s, i) == 0 <= i /\ i < Len(s)

At(s, i) == s[i + 1]

\* a slice bound as Python normalises it (negative counts from the end)
PyBound(i, n) == IF i < 0 THEN Max(i + n, 0) ELSE Min(i, n)

\* s[a:b]
Slice(s, a, b) ==
    LET lo == PyBound(a, Len(s))
        hi == PyBound(b, Len(s))
    IN IF lo >= hi THEN <<>> ELSE SubSeq(s, lo + 1, hi)

\* s[a:]
SliceFrom(s, a) == Slice(s, a, Len(s))

\* s[:b]
SliceTo(s, b) == Slice(s, 0, b)

\* str(n) for n >= 0, as code points
RECURSIVE PyStr(_)
PyStr(n) == IF n < 10 THEN <<48 + n>> ELSE PyStr(n \div 10) \o <<48 + (n % 10)>>

\* f"{n:02d}"
PyStr02(n) == IF n < 10 THEN <<48>> \o PyStr(n) ELSE PyStr(n)

\* f"{b:02X}" of one byte
HexDigit(n) == IF n < 10 THEN 48 + n ELSE 55 + n

HexByte(b) == <<HexDigit(b \div 16), HexDigit(b % 16)>>

\* smartcard.util.toHexString: "3B 65 00", bytes in upper-case hex separated
\* by one space; "" for the empty list
RECURSIVE ToHexString(_)
ToHexString(d) ==
    IF d = <<>> THEN <<>>
    ELSE IF Len(d) = 1 THEN HexByte(d[1])
    ELSE HexByte(d[1]) \o <<32>> \o ToHexString(Tail(d))

\* an all-0xFF test that takes no record for an unused slot
AllFFNever(d) == FALSE

\* all(b == 0xFF for b in data)
AllFF(d) == \A k \in 1..Len(d) : d[k] = 255

\* [b for b in data if b != 0xFF]
RECURSIVE DropFF(_)
DropFF(d) ==
    IF d = <<>> THEN <<>>
    ELSE IF d[1] = 255 THEN DropFF(Tail(d)) ELSE <<d[1]>> \o DropFF(Tail(d))

\* the code points str.strip() removes
PyWhitespace ==
    (9..13) \cup (28..32) \cup {133, 160, 5760} \cup (8192..8202)
        \cup {8232, 8233, 8239, 8287, 12288}

RECURSIVE LStrip(_)
LStrip(s) ==
    IF s = <<>> THEN <<>>
    ELSE IF s[1] \in PyWhitespace THEN LStrip(Tail(s)) ELSE s

RECURSIVE RStrip(_)
RStrip(s) ==
    IF s = <<>> THEN <<>>
    ELSE IF s[Len(s)] \in PyWhitespace THEN RStrip(SubSeq(s, 1, Len(s) - 1)) ELSE s

\* str.strip()
Strip(s) == RStrip(LStrip(s))

\* U+FFFD, what errors='replace' puts for undecodable input
Replacement == 65533

IsCont(b) == b >= 128 /\ b <= 191

\* the range allowed for the byte that follows lead byte b in UTF-8
Utf8Second(b, c) ==
    IF b = 224 THEN c >= 160 /\ c <= 191
    ELSE IF b = 237 THEN c >= 128 /\ c <= 159
    ELSE IF b = 240 THEN c >= 144 /\ c <= 191
    ELSE IF b = 244 THEN c >= 128 /\ c <= 143
    ELSE IsCont(c)

\* bytes(d).decode('utf-8', errors='replace'), as code points
RECURSIVE Utf8Decode(_)
Utf8Decode(d) ==
    IF d = <<>> THEN <<>>
    ELSE
      LET b == d[1]
          n == Len(d)
          need == IF b < 128 THEN 0
                  ELSE IF b >= 194 /\ b <= 223 THEN 1
                  ELSE IF b >= 224 /\ b <= 239 THEN 2
                  ELSE IF b >= 240 /\ b <= 244 THEN 3
                  ELSE 4
          rest(k) == Utf8Decode(SubSeq(d, k + 1, n))
      IN IF need = 0 THEN <<b>> \o rest(1)
         ELSE IF need = 4 THEN <<Replacement>> \o rest(1)
         ELSE IF n < 2 THEN <<Replacement>>
         ELSE IF ~Utf8Second(b, d[2]) THEN <<Replacement>> \o rest(1)
         ELSE IF need = 1 THEN <<(b % 32) * 64 + (d[2] % 64)>> \o rest(2)
         ELSE IF n < 3 THEN <<Replacement>>
         ELSE IF ~IsCont(d[3]) THEN <<Replacement>> \o rest(2)
         ELSE IF need = 2
              THEN <<(b % 16) * 4096 + (d[2] % 64) * 64 + (d[3] % 64)>> \o rest(3)
         ELSE IF n < 4 THEN <<Replacement>>
         ELSE IF ~IsCont(d[4]) THEN <<Replacement>> \o rest(3)
         ELSE <<(b % 8) * 262144 + (d[2] % 64) * 4096 + (d[3] % 64) * 64 + (d[4] % 64)>>
                  \o rest(4)

IsHighSurrogate(u) == u >= 55296 /\ u <= 56319

IsLowSurrogate(u) == u >= 56320 /\ u <= 57343

\* bytes(d).decode('utf-16-be', errors='replace'), as code points
RECURSIVE Utf16BeDecode(_)
Utf16BeDecode(d) ==
    IF d = <<>> THEN <<>>
    ELSE IF Len(d) = 1 THEN <<Replacement>>
    ELSE
      LET n == Len(d)
          u == d[1] * 256 + d[2]
          rest(k) == Utf16BeDecode(SubSeq(d, k + 1, n))
      IN IF IsLowSurrogate(u) THEN <<Replacement>> \o rest(2)
         ELSE IF ~IsHighSurrogate(u) THEN <<u>> \o rest(2)
         ELSE IF n < 4 THEN <<Replacement>>
         ELSE LET v == d[3] * 256 + d[4]
              IN IF IsLowSurrogate(v)
                 THEN <<65536 + (u - 55296) * 1024 + (v - 56320)>> \o rest(4)
                 ELSE <<Replacement>> \o rest(2)

----------------------------------------------------------------------------
(* Python results *)

NoneV == [t |-> "none"]

RaiseV == [t |-> "raise"]

StrV(s) == [t |-> "str", s |-> s]

\* a key a dict does not hold
Absent == [t |-> "absent"]

\* bool(v) of a decoder's result
Truthy(v) == v.t = "dict" \/ (v.t = "str" /\ v.s # <<>>) \/ (v.t = "list" /\ v.l # <<>>)

----------------------------------------------------------------------------
(* FieldDecoders: SIMReader.decode_* *)

\* str(nibble), nothing for the filler 0xF (lines 225-228, 272-275, 321-324)
NibbleStr(n) == IF n = 15 THEN <<>> ELSE PyStr(n)

\* the shared semi-octet loop: low nibble, then high nibble, of every byte
RECURSIVE SemiOctets(_)
SemiOctets(d) ==
    IF d = <<>> THEN <<>>
    ELSE NibbleStr(LowNibble(d[1])) \o NibbleStr(HighNibble(d[1])) \o SemiOctets(Tail(d))

decode_iccid(data) == StrV(SemiOctets(data))

\* the digits of bytes i .. last with both nibbles of every byte
ImsiDigitsBoth(data, i, last) == SemiOctets(SubSeq(data, i + 1, last + 1))

\* the loop of decode_imsi for i in range(i, last + 1); an iteration with
\* i >= len(data) appends nothing (line 204), so the loop is cut at len(data) - 1
RECURSIVE ImsiDigits(_, _, _)
ImsiDigits(data, i, last) ==
    IF i > last THEN <<>>
    ELSE (IF i = 1
          THEN NibbleStr(HighNibble(At(data, i)))
          ELSE NibbleStr(LowNibble(At(data, i))) \o NibbleStr(HighNibble(At(data, i))))
         \o ImsiDigits(data, i + 1, last)

decode_imsi(data) ==
    IF Len(data) < 9 THEN NoneV
    ELSE IF ~InRange(data, 0) THEN RaiseV
    ELSE StrV(ImsiDigits(data, 1, Min(At(data, 0), Len(data) - 1)))

decode_msisdn(data) ==
    IF Len(data) < 14 THEN NoneV
    ELSE
      LET alpha_len == Len(data) - 14
          alpha == SliceTo(data, alpha_len)
      IN IF ~InRange(data, alpha_len) THEN RaiseV
         ELSE
           LET bcd_len == At(data, alpha_len)
           IN IF bcd_len = 255 \/ bcd_len = 0 THEN NoneV
              ELSE IF ~InRange(data, alpha_len + 1) THEN RaiseV
              ELSE
                LET ton_npi == At(data, alpha_len + 1)
                    number_bytes == Slice(data, alpha_len + 2, alpha_len + 12)
                    number == (IF ton_npi = 145 THEN <<43>> ELSE <<>>)
                                \o SemiOctets(number_bytes)
                    alpha_clean == DropFF(alpha)
                    alpha_tag == IF alpha_clean # <<>>
                                 THEN Strip(Utf8Decode(alpha_clean)) ELSE <<>>
                IN IF number # <<>>
                   THEN [t |-> "dict", number |-> number, alpha |-> alpha_tag]
                   ELSE NoneV

decode_smsp(data) ==
    IF Len(data) < 28 THEN NoneV
    ELSE
      LET alpha_len == Len(data) - 28
          smsc_len_offset == alpha_len + 1
      IN IF alpha_len >= 0 /\ ~InRange(data, alpha_len) THEN RaiseV
         ELSE IF smsc_len_offset >= Len(data) THEN NoneV
         ELSE
           LET smsc_len == At(data, smsc_len_offset)
           IN IF smsc_len = 255 \/ smsc_len = 0 \/ smsc_len > 12 THEN NoneV
              ELSE
                LET ton_npi == IF smsc_len_offset + 1 < Len(data)
                               THEN At(data, smsc_len_offset + 1) ELSE 255
                    number_start == smsc_len_offset + 2
                    number_bytes == Slice(data, number_start, number_start + smsc_len - 1)
                    smsc == (IF ton_npi = 145 THEN <<43>> ELSE <<>>)
                              \o SemiOctets(number_bytes)
                IN IF smsc # <<>> THEN StrV(smsc) ELSE NoneV

\* the MNC digits shared by decode_plmn and decode_loci (lines 341-348, 366-373)
MncStr(d1, d2, d3) ==
    IF d3 = 15 THEN PyStr(d1) \o PyStr(d2) ELSE PyStr(d1) \o PyStr(d2) \o PyStr(d3)

\* the loop of decode_plmn for i in range(i, len(data), 3)
RECURSIVE PlmnEntries(_, _)
PlmnEntries(data, i) ==
    IF i >= Len(data) THEN <<>>
    ELSE IF i + 2 >= Len(data) THEN <<>>
    ELSE
      LET b1 == At(data, i)
          b2 == At(data, i + 1)
          b3 == At(data, i + 2)
          mcc == PyStr(LowNibble(b1)) \o PyStr(HighNibble(b1)) \o PyStr(LowNibble(b2))
          mnc == MncStr(LowNibble(b3), HighNibble(b3), HighNibble(b2))
      IN IF b1 = 255 /\ b2 = 255 /\ b3 = 255 THEN PlmnEntries(data, i + 3)
         ELSE IF mcc # <<70, 70, 70>>
              THEN <<mcc \o <<45>> \o mnc>> \o PlmnEntries(data, i + 3)
              ELSE PlmnEntries(data, i + 3)

decode_plmn(data) == [t |-> "list", l |-> PlmnEntries(data, 0)]

\* toHexString(d).replace(" ", "")
RECURSIVE HexNoSpace(_)
HexNoSpace(d) == IF d = <<>> THEN <<>> ELSE HexByte(d[1]) \o HexNoSpace(Tail(d))

\* status_map.get(update_status & 0x07, f"Unknown ({update_status})") of decode_loci
LociStatus(update_status) ==
    LET k == update_status % 8
    IN IF k = 0 THEN <<85,112,100,97,116,101,100>>
       ELSE IF k = 1 THEN <<78,111,116,32,117,112,100,97,116,101,100>>
       ELSE IF k = 2 THEN <<80,76,77,78,32,110,111,116,32,97,108,108,111,119,101,100>>
       ELSE IF k = 3
            THEN <<76,111,99,97,116,105,111,110,32,97,114,101,97,32,110,111,116,32,
                   97,108,108,111,119,101,100>>
       ELSE <<85,110,107,110,111,119,110,32,40>> \o PyStr(update_status) \o <<41>>

decode_loci(data) ==
    IF Len(data) < 11 THEN NoneV
    ELSE
      LET lai == Slice(data, 4, 9)
      IN IF \E k \in 0..4 : ~InRange(lai, k) THEN RaiseV
         ELSE
           LET lac == At(lai, 3) * 256 + At(lai, 4)
               update_status == IF Len(data) > 10 THEN At(data, 10) ELSE 0
           IN [t |-> "dict",
               tmsi |-> HexNoSpace(Slice(data, 0, 4)),
               mcc |-> PyStr(LowNibble(At(lai, 0))) \o PyStr(HighNibble(At(lai, 0)))
                         \o PyStr(LowNibble(At(lai, 1))),
               mnc |-> MncStr(LowNibble(At(lai, 2)), HighNibble(At(lai, 2)),
                              HighNibble(At(lai, 1))),
               lac |-> <<48, 120>> \o HexByte(lac \div 256) \o HexByte(lac % 256)
                         \o <<32, 40>> \o PyStr(lac) \o <<41>>,
               update_status |-> LociStatus(update_status)]

\* the bytes other than 0xFF, wherever they are
WithoutFF(d) == SelectSeq(d, LAMBDA b : b # 255)

\* the bytes before the first 0xFF (lines 440-444)
RECURSIVE BeforeFF(_)
BeforeFF(d) ==
    IF d = <<>> THEN <<>>
    ELSE IF d[1] = 255 THEN <<>> ELSE <<d[1]>> \o BeforeFF(Tail(d))

\* the 0x81 loop of decode_alpha_id for i in range(i, stop)
RECURSIVE Alpha81(_, _, _, _)
Alpha81(clean, i, stop, base) ==
    IF i >= stop THEN <<>>
    ELSE <<IF At(clean, i) < 128 THEN At(clean, i) ELSE base + (At(clean, i) % 128)>>
           \o Alpha81(clean, i + 1, stop, base)

decode_alpha_id(data) ==
    LET clean == BeforeFF(data)
    IN IF clean = <<>> THEN NoneV
       ELSE IF At(clean, 0) = 128 THEN StrV(Strip(Utf16BeDecode(SliceFrom(clean, 1))))
       ELSE IF At(clean, 0) = 129 /\ Len(clean) > 3
            THEN StrV(Strip(Alpha81(clean, 3, Min(3 + At(clean, 1), Len(clean)),
                                    At(clean, 2) * 128)))
       ELSE StrV(Strip(Utf8Decode(clean)))

\* digit_map.get(n, str(n)) (line 498)
BcdDigit(n) ==
    IF n = 10 THEN <<42>>
    ELSE IF n = 11 THEN <<35>>
    ELSE IF n = 12 THEN <<112>>
    ELSE IF n = 13 THEN <<119>>
    ELSE IF n = 14 THEN <<43>>
    ELSE PyStr(n)

\* the digit loop of decode_bcd_number (lines 493-503)
RECURSIVE BcdDigits(_)
BcdDigits(d) ==
    IF d = <<>> THEN <<>>
    ELSE (IF LowNibble(d[1]) # 15 THEN BcdDigit(LowNibble(d[1])) ELSE <<>>)
         \o (IF HighNibble(d[1]) # 15 THEN BcdDigit(HighNibble(d[1])) ELSE <<>>)
         \o BcdDigits(Tail(d))

decode_bcd_number(data, include_ton) ==
    IF data = <<>> \/ Len(data) < 2 THEN NoneV
    ELSE IF ~InRange(data, 0) THEN RaiseV
    ELSE
      LET bcd_len == At(data, 0)
      IN IF bcd_len = 255 \/ bcd_len = 0 THEN NoneV
         ELSE IF ~InRange(data, 1) THEN RaiseV
         ELSE
           LET ton_npi == At(data, 1)
               number_bytes == Slice(data, 2, 2 + bcd_len - 1)
               number == (IF include_ton /\ ton_npi = 145 THEN <<43>> ELSE <<>>)
                           \o BcdDigits(number_bytes)
           IN IF number # <<>> THEN StrV(number) ELSE NoneV

\* the 128-entry table of decode_gsm7 (lines 647-650), as code points
gsm7_basic ==
    <<
      64, 163, 36, 165, 232, 233, 249, 236, 242, 199, 10, 216, 248, 13, 197, 229,
      916, 95, 934, 915, 923, 937, 928, 936, 931, 920, 926, 32, 198, 230, 223, 201,
      32, 33, 34, 35, 164, 37, 38, 39, 40, 41, 42, 43, 44, 45, 46, 47,
      48, 49, 50, 51, 52, 53, 54, 55, 56, 57, 58, 59, 60, 61, 62, 63,
      161, 65, 66, 67, 68, 69, 70, 71, 72, 73, 74, 75, 76, 77, 78, 79,
      80, 81, 82, 83, 84, 85, 86, 87, 88, 89, 90, 196, 214, 209, 220, 167,
      191, 97, 98, 99, 100, 101, 102, 103, 104, 105, 106, 107, 108, 109, 110, 111,
      112, 113, 114, 115, 116, 117, 118, 119, 120, 121, 122, 228, 246, 241, 252, 224
    >>

\* a | b on non-negative integers
RECURSIVE BitOr(_, _)
BitOr(a, b) ==
    IF a = 0 THEN b
    ELSE IF b = 0 THEN a
    ELSE (IF a % 2 = 1 \/ b % 2 = 1 THEN 1 ELSE 0) + 2 * BitOr(a \div 2, b \div 2)

\* 2^k
RECURSIVE Pow2(_)
Pow2(k) == IF k = 0 THEN 1 ELSE 2 * Pow2(k - 1)

\* the 7 bits with the next byte taken in only from bit offset 3 on
Gsm7ValueLateCarry(data, byte_pos, bit_pos) ==
    LET low == (At(data, byte_pos) \div Pow2(bit_pos)) % 128
    IN IF bit_pos > 2 /\ byte_pos + 1 < Len(data)
       THEN BitOr(low, (At(data, byte_pos + 1) * Pow2(8 - bit_pos)) % 128)
       ELSE low

\* the 7 bits decode_gsm7 extracts at (byte_pos, bit_pos) (lines 662-665)
Gsm7Value(data, byte_pos, bit_pos) ==
    LET low == (At(data, byte_pos) \div Pow2(bit_pos)) % 128
    IN IF bit_pos > 1 /\ byte_pos + 1 < Len(data)
       THEN BitOr(low, (At(data, byte_pos + 1) * Pow2(8 - bit_pos)) % 128)
       ELSE low

\* the loop of decode_gsm7 for i in range(i, num_chars)
RECURSIVE Gsm7Loop(_, _, _, _, _)
Gsm7Loop(data, num_chars, i, byte_pos, bit_pos) ==
    IF i >= num_chars THEN <<>>
    ELSE IF byte_pos >= Len(data) THEN <<>>
    ELSE
      LET char_val == Gsm7Value(data, byte_pos, bit_pos)
          ch == IF char_val < Len(gsm7_basic) THEN gsm7_basic[char_val + 1] ELSE 63
          wrap == bit_pos + 7 >= 8
      IN <<ch>> \o Gsm7Loop(data, num_chars, i + 1,
                            IF wrap THEN byte_pos + 1 ELSE byte_pos,
                            IF wrap THEN bit_pos + 7 - 8 ELSE bit_pos + 7)

decode_gsm7(data, num_chars) == StrV(Gsm7Loop(data, num_chars, 0, 0, 0))

\* status_map.get(status, f"Unknown ({status})") of decode_sms (lines 513-519)
SmsStatus(status) ==
    IF status = 0 THEN <<70,114,101,101>>
    ELSE IF status = 1 THEN <<82,101,99,101,105,118,101,100,32,117,110,114,101,97,100>>
    ELSE IF status = 3 THEN <<82,101,99,101,105,118,101,100,32,114,101,97,100>>
    ELSE IF status = 5 THEN <<83,101,110,116,32,117,110,115,101,110,116>>
    ELSE IF status = 7 THEN <<83,101,110,116>>
    ELSE <<85,110,107,110,111,119,110,32,40>> \o PyStr(status) \o <<41>>

\* the empty-slot test on the status byte (line 521)
SmsSlotEmpty(status) == status = 0 \/ status = 255

\* (b >> 4) * 10 + (b & 0x0F), one field of the time stamp (lines 576-581)
SctsField(b) == (b \div 16) * 10 + LowNibble(b)

\* the f-string of line 582
SmsTimestamp(scts) ==
    <<50, 48>> \o PyStr02(SctsField(At(scts, 0))) \o <<45>> \o PyStr02(SctsField(At(scts, 1)))
      \o <<45>> \o PyStr02(SctsField(At(scts, 2))) \o <<32>> \o PyStr02(SctsField(At(scts, 3)))
      \o <<58>> \o PyStr02(SctsField(At(scts, 4))) \o <<58>> \o PyStr02(SctsField(At(scts, 5)))

\* the user-data text chosen by bit 3 of the data coding scheme alone
SmsUserDataBit3(dcs, ud, udl) ==
    IF (dcs \div 8) % 2 = 1 THEN Utf16BeDecode(SliceTo(ud, udl)) ELSE decode_gsm7(ud, udl).s

\* the user-data text by data coding scheme (lines 591-599 and 633-641)
SmsUserData(dcs, ud, udl) ==
    IF (dcs \div 4) % 4 = 2 THEN Utf16BeDecode(SliceTo(ud, udl))
    ELSE IF (dcs \div 4) % 4 = 0 THEN decode_gsm7(ud, udl).s
    ELSE <<91,68,97,116,97,58,32>> \o ToHexString(SliceTo(ud, udl)) \o <<93>>

\* no validity period, whatever the first octet says
SmsVpWidthNone(first_octet) == 0

\* the validity-period width added to the offset (lines 622-626)
SmsVpWidth(first_octet) ==
    LET vpf == (first_octet \div 8) % 4
    IN IF vpf = 2 THEN 1 ELSE IF vpf = 3 THEN 7 ELSE 0

\* a result dict of decode_sms; keys not set are Absent
SmsDict(status, smsc) ==
    [t |-> "dict", status |-> SmsStatus(status), smsc |-> smsc, sender |-> Absent,
     recipient |-> Absent, timestamp |-> Absent, message |-> Absent]

\* the SMS-DELIVER branch (lines 554-599)
SmsDeliver(pdu, result) ==
    IF Len(pdu) < 3 THEN result
    ELSE IF ~InRange(pdu, 1) THEN RaiseV
    ELSE
      LET sender_len == At(pdu, 1)
          sender_type == IF Len(pdu) > 2 THEN At(pdu, 2) ELSE 129
          sender_bytes_len == (sender_len + 1) \div 2
          sender_data == <<sender_bytes_len + 1, sender_type>>
                           \o Slice(pdu, 3, 3 + sender_bytes_len)
          r1 == [result EXCEPT !.sender = decode_bcd_number(sender_data, TRUE)]
          offset == 3 + sender_bytes_len
      IN IF ~(offset + 7 < Len(pdu)) THEN r1
         ELSE IF ~InRange(pdu, offset) \/ ~InRange(pdu, offset + 1) THEN RaiseV
         ELSE
           LET dcs == At(pdu, offset + 1)
               scts == Slice(pdu, offset + 2, offset + 9)
               r2 == IF Len(scts) = 7
                     THEN [r1 EXCEPT !.timestamp = StrV(SmsTimestamp(scts))] ELSE r1
               ud_offset == offset + 9
           IN IF ~(ud_offset < Len(pdu)) THEN r2
              ELSE IF ~InRange(pdu, ud_offset) THEN RaiseV
              ELSE [r2 EXCEPT !.message =
                       StrV(SmsUserData(dcs, SliceFrom(pdu, ud_offset + 1),
                                        At(pdu, ud_offset)))]

\* the SMS-SUBMIT branch (lines 601-641)
SmsSubmit(pdu, result) ==
    IF Len(pdu) < 3 THEN result
    ELSE IF ~InRange(pdu, 1) \/ ~InRange(pdu, 2) THEN RaiseV
    ELSE
      LET first_octet == At(pdu, 0)
          dest_len == At(pdu, 2)
          dest_type == IF Len(pdu) > 3 THEN At(pdu, 3) ELSE 129
          dest_bytes_len == (dest_len + 1) \div 2
          dest_data == <<dest_bytes_len + 1, dest_type>> \o Slice(pdu, 4, 4 + dest_bytes_len)
          r1 == [result EXCEPT !.recipient = decode_bcd_number(dest_data, TRUE)]
          offset0 == 4 + dest_bytes_len
      IN IF ~(offset0 + 2 < Len(pdu)) THEN r1
         ELSE IF ~InRange(pdu, offset0) \/ ~InRange(pdu, offset0 + 1) THEN RaiseV
         ELSE
           LET dcs == At(pdu, offset0 + 1)
               offset == offset0 + SmsVpWidth(first_octet)
               ud_offset == offset + 2
           IN IF ~(ud_offset < Len(pdu)) THEN r1
              ELSE IF ~InRange(pdu, ud_offset) THEN RaiseV
              ELSE [r1 EXCEPT !.message =
                       StrV(SmsUserData(dcs, SliceFrom(pdu, ud_offset + 1),
                                        At(pdu, ud_offset)))]

decode_sms(data) ==
    IF data = <<>> \/ Len(data) < 1 THEN NoneV
    ELSE IF ~InRange(data, 0) THEN RaiseV
    ELSE
      LET status == At(data, 0)
      IN IF SmsSlotEmpty(status) THEN NoneV
         ELSE IF ~InRange(data, 1) THEN RaiseV
         ELSE
           LET smsc_len == At(data, 1)
               has_smsc == smsc_len > 0 /\ smsc_len # 255
               smsc == IF has_smsc
                       THEN decode_bcd_number(<<smsc_len>> \o Slice(data, 2, 2 + smsc_len), TRUE)
                       ELSE NoneV
               pdu_start == IF has_smsc THEN 2 + smsc_len ELSE 2
               pdu == SliceFrom(data, pdu_start)
               short == [t |-> "dict", status |-> SmsStatus(status), smsc |-> Absent,
                         sender |-> Absent, recipient |-> Absent, timestamp |-> Absent,
                         message |-> Absent]
           IN IF pdu_start >= Len(data) THEN short
              ELSE IF Len(pdu) < 2 THEN short
              ELSE IF ~InRange(pdu, 0) THEN RaiseV
              ELSE
                LET mti == At(pdu, 0) % 4
                    result == SmsDict(status, smsc)
                IN IF mti = 0 THEN SmsDeliver(pdu, result)
                   ELSE IF mti = 1 THEN SmsSubmit(pdu, result)
                   ELSE result

----------------------------------------------------------------------------
(* ApduCodec: the command frames (lines 61-195) *)

\* apdu of select_file_gsm (line 63)
SelectGsmApdu(file_id) == <<160, 164, 0, 0, 2, (file_id \div 256) % 256, file_id % 256>>

\* apdu of select_file_usim (line 171); select_usim builds the same frame for 2F00 (line 102)
SelectUsimApdu(file_id) == <<0, 164, 0, 4, 2, (file_id \div 256) % 256, file_id % 256>>

\* the GET RESPONSE frames (lines 71, 85, 106, 116, 160, 178)
GetResponseApdu(cla, length) == <<cla, 192, 0, 0, length>>

\* apdu of read_binary / read_binary_usim (lines 81, 187)
ReadBinaryApdu(cla, length, offset) ==
    <<cla, 176, (offset \div 256) % 256, offset % 256, length>>

\* a READ RECORD frame in the mode "next record"
ReadRecordApduNext(cla, record_num, length) == <<cla, 178, record_num, 2, length>>

\* apdu of read_record / read_record_usim (lines 92, 193)
ReadRecordApdu(cla, record_num, length) == <<cla, 178, record_num, 4, length>>

\* the select-by-AID frame of select_usim (lines 112, 156)
SelectAidApdu(aid) == <<0, 164, 4, 4, Len(aid)>> \o aid

\* the well-known USIM AID (lines 111, 154)
DefaultAid == <<160, 0, 0, 0, 135, 16, 2, 255, 255, 255, 255, 137, 6, 1, 0, 0>>

\* what a frame is, by its instruction byte
IsSelect(apdu) == Len(apdu) >= 5 /\ apdu[2] = 164

\* P1 = 00: by file identifier (P1 = 04 is by AID)
IsSelectByFileId(apdu) == IsSelect(apdu) /\ apdu[3] = 0

IsGetResponse(apdu) == Len(apdu) = 5 /\ apdu[2] = 192

IsReadBinary(apdu) == Len(apdu) = 5 /\ apdu[2] = 176

IsReadRecord(apdu) == Len(apdu) = 5 /\ apdu[2] = 178

----------------------------------------------------------------------------
(* The catalogue read_all walks through (lines 685-1138) *)

MF == 16128

DF_GSM == 32544

EF_DIR == 12032

\* kind "bin": select, read_binary(arg); "rec1": select, read_record(1, data[14] or arg);
\* "walk": select (GSM, then USIM), geometry, record loop with range stop arg and
\* default record count dflt.  df: DF GSM (7F20) is selected before the file.
Files ==
    << [name |-> "ICCID",   fid |-> 12258, df |-> FALSE, kind |-> "bin",  arg |-> 10,  dflt |-> 0],
       [name |-> "IMSI",    fid |-> 28423, df |-> TRUE,  kind |-> "bin",  arg |-> 9,   dflt |-> 0],
       [name |-> "SPN",     fid |-> 28486, df |-> TRUE,  kind |-> "bin",  arg |-> 17,  dflt |-> 0],
       [name |-> "MSISDN",  fid |-> 28480, df |-> TRUE,  kind |-> "rec1", arg |-> 34,  dflt |-> 0],
       [name |-> "SMSP",    fid |-> 28482, df |-> TRUE,  kind |-> "rec1", arg |-> 40,  dflt |-> 0],
       [name |-> "PLMNsel", fid |-> 28464, df |-> TRUE,  kind |-> "bin",  arg |-> 30,  dflt |-> 0],
       [name |-> "FPLMN",   fid |-> 28539, df |-> TRUE,  kind |-> "bin",  arg |-> 12,  dflt |-> 0],
       [name |-> "LOCI",    fid |-> 28542, df |-> TRUE,  kind |-> "bin",  arg |-> 11,  dflt |-> 0],
       [name |-> "ACC",     fid |-> 28536, df |-> TRUE,  kind |-> "bin",  arg |-> 2,   dflt |-> 0],
       [name |-> "AD",      fid |-> 28589, df |-> TRUE,  kind |-> "bin",  arg |-> 4,   dflt |-> 0],
       [name |-> "HPLMN",   fid |-> 28465, df |-> TRUE,  kind |-> "bin",  arg |-> 1,   dflt |-> 0],
       [name |-> "Phase",   fid |-> 28590, df |-> TRUE,  kind |-> "bin",  arg |-> 1,   dflt |-> 0],
       [name |-> "ADN",     fid |-> 28474, df |-> TRUE,  kind |-> "walk", arg |-> 251, dflt |-> 250],
       [name |-> "FDN",     fid |-> 28475, df |-> TRUE,  kind |-> "walk", arg |-> 51,  dflt |-> 10],
       [name |-> "SDN",     fid |-> 28489, df |-> TRUE,  kind |-> "walk", arg |-> 51,  dflt |-> 10],
       [name |-> "LND",     fid |-> 28484, df |-> TRUE,  kind |-> "walk", arg |-> 21,  dflt |-> 5],
       [name |-> "SMS",     fid |-> 28476, df |-> TRUE,  kind |-> "walk", arg |-> 51,  dflt |-> 50] >>

NumFiles == Len(Files)

\* the status bytes after which a select is followed by reads (line 692 and alike)
SelectOk(s1) == s1 \in {144, 159, 145}

\* the gate in front of the record loops (lines 902, 969, 1010, 1051, 1097)
WalkGate(s1) == s1 \in {144, 159, 145, 97}

\* the success test on a read (lines 694, 740, 937, ...)
ReadOk(s1) == s1 = 144

\* an end-of-file test on 6A 82 in the place of 6A 83
IsRecordNotFoundOther(s1, s2) == s1 = 106 /\ s2 = 130

\* the end-of-file test of the record loops (lines 950, 990, 1031, 1072, 1130)
IsRecordNotFound(s1, s2) == s1 = 106 /\ s2 = 131

\* the status bytes on which select_file_gsm / read_binary fetch the response (lines 69, 84)
MoreDataGsm(s1) == s1 = 159

\* the status bytes on which select_file_usim / select_usim fetch the response (lines 105, 177)
MoreDataUsim(s1) == s1 = 97

\* int >> 8 | int of two bytes (lines 916, 927, 971, 1102)
Word(hi, lo) == hi * 256 + lo

\* the tags the FCP scan of the ADN block skips by their length (line 920)
FcpKnownTags == {98, 128, 129, 131, 132, 138, 139, 140, 165, 171, 198}

\* the FCP scan of the ADN block (lines 909-924), from position i;
\* raise: an index past the end of data was read
RECURSIVE FcpScan(_, _)
FcpScan(d, i) ==
    IF ~(i < Len(d) - 2) THEN [raise |-> FALSE, record_len |-> 34, num_records |-> 250]
    ELSE IF At(d, i) = 130
    THEN LET fd_len == At(d, i + 1)
             j == i + 2
         IN IF fd_len >= 3 /\ (~InRange(d, j + 1) \/ ~InRange(d, j + 2))
            THEN [raise |-> TRUE, record_len |-> 34, num_records |-> 250]
            ELSE IF fd_len >= 5 /\ ~InRange(d, j + 3)
            THEN [raise |-> TRUE, record_len |-> Word(At(d, j + 1), At(d, j + 2)),
                  num_records |-> 250]
            ELSE [raise |-> FALSE,
                  record_len |-> IF fd_len >= 3 THEN Word(At(d, j + 1), At(d, j + 2)) ELSE 34,
                  num_records |-> IF fd_len >= 5 THEN At(d, j + 3) ELSE 250]
    ELSE IF At(d, i) \in FcpKnownTags
    THEN FcpScan(d, i + 1 + At(d, i + 1) + 1)
    ELSE FcpScan(d, i + 1)

\* record_len, num_records of the ADN block (lines 904-927)
AdnGeometry(use_usim_, d) ==
    IF use_usim_ /\ d # <<>> THEN FcpScan(d, 0)
    ELSE IF d # <<>> /\ Len(d) > 14
    THEN [raise |-> FALSE, record_len |-> At(d, 14),
          num_records |-> IF At(d, 14) > 0 THEN Word(At(d, 2), At(d, 3)) \div At(d, 14) ELSE 10]
    ELSE [raise |-> FALSE, record_len |-> 34, num_records |-> 250]

\* record_len, num_records of the FDN, SDN and LND blocks (lines 970-971, 1011-1012, 1052-1053)
DialGeometry(d, dflt) ==
    LET rl == IF Len(d) > 14 THEN At(d, 14) ELSE 34
    IN [raise |-> FALSE, record_len |-> rl,
        num_records |-> IF Len(d) > 3 /\ rl > 0 THEN Word(At(d, 2), At(d, 3)) \div rl ELSE dflt]

\* record_len, num_records of the SMS block (lines 1098-1103)
SmsGeometry(d) ==
    [raise |-> FALSE, record_len |-> 176,
     num_records |-> IF d # <<>> /\ Len(d) > 3 THEN Word(At(d, 2), At(d, 3)) \div 176 ELSE 50]

\* the inner loop of the EF_DIR parse (lines 139-148), from position i
RECURSIVE DirInner(_, _, _)
DirInner(d, i, end) ==
    IF ~(i < end /\ i < Len(d) - 2) THEN [found |-> FALSE, aid |-> <<>>]
    ELSE LET tag == At(d, i)
             length == At(d, i + 1)
         IN IF tag = 79 THEN [found |-> TRUE, aid |-> Slice(d, i + 2, i + 2 + length)]
            ELSE DirInner(d, i + 2 + length, end)

\* the EF_DIR parse of select_usim (lines 132-150), from position i
RECURSIVE DirScan(_, _)
DirScan(d, i) ==
    IF ~(i < Len(d) - 2) THEN [found |-> FALSE, aid |-> <<>>]
    ELSE IF At(d, i) = 97 THEN DirInner(d, i + 2, i + 2 + At(d, i + 1))
    ELSE DirScan(d, i + 1)

----------------------------------------------------------------------------
(* The card: the responses the transport can hand back *)

Rsp(d, s1, s2) == [d |-> d, s1 |-> s1, s2 |-> s2]

\* the number of leading records of a file whose answer is unconstrained; a
\* record above it is an unused slot (all 0xFF) or past the end of the file
MaxVarRec == 5

\* GSM selection responses (15 bytes: file size at 2..3, record length at 14)
G_SMALL == <<0, 0, 0, 40, 111, 58, 4, 0, 17, 255, 34, 1, 2, 1, 4>>

G_SMS == <<0, 0, 2, 16, 111, 60, 4, 0, 17, 255, 34, 1, 2, 1, 176>>

G_ZERO == <<0, 0, 0, 12, 111, 58, 4, 0, 17, 255, 34, 1, 2, 0, 0>>

G_BIG == <<0, 0, 36, 0, 111, 58, 4, 0, 17, 255, 34, 1, 2, 1, 4>>

\* USIM file control parameters: a bare descriptor tag 82, the usual template
\* 62 LL 82 05 ..., and a descriptor cut short
F_BARE == <<130, 5, 66, 33, 0, 4, 3>>

F_WRAP == <<98, 7, 130, 5, 66, 33, 0, 4, 3>>

F_TRUNC == <<130, 5, 66>>

SelData == {<<>>, G_SMALL, G_SMS, G_ZERO, G_BIG, F_BARE, F_WRAP, F_TRUNC}

\* answers to a SELECT (by file id or by AID)
SelectResponses ==
    {Rsp(d, 144, 0) : d \in SelData}
      \cup {Rsp(<<>>, 159, 15), Rsp(<<>>, 97, 15), Rsp(<<>>, 145, 5), Rsp(<<>>, 106, 130)}

\* answers to a GET RESPONSE
GetResponseResponses ==
    {Rsp(d, 144, 0) : d \in SelData} \cup {Rsp(<<>>, 159, 15), Rsp(<<>>, 111, 0)}

\* file content of a transparent file
B_ICCID == <<152, 16, 50, 84, 118, 152, 16, 50, 84, 246>>

\* answers to a READ BINARY
ReadBinaryResponses ==
    {Rsp(B_ICCID, 144, 0), Rsp(<<>>, 144, 0), Rsp(B_ICCID, 144, 1), Rsp(<<>>, 159, 10),
     Rsp(<<>>, 97, 10), Rsp(<<>>, 105, 130)}

\* records: a number, an unused slot, a blank name, a one-byte answer
R_NUM == <<3, 145, 33, 67>>

R_FF == <<255, 255, 255, 255>>

R_BLANK == <<32, 255, 255, 255>>

R_ONE == <<1>>

\* answers to a READ RECORD of the record number rec_
ReadRecordResponses(rec_) ==
    IF rec_ <= MaxVarRec
    THEN {Rsp(R_NUM, 144, 0), Rsp(R_FF, 144, 0), Rsp(R_BLANK, 144, 0), Rsp(R_ONE, 144, 0),
          Rsp(<<>>, 144, 0), Rsp(R_NUM, 144, 1), Rsp(<<>>, 106, 131), Rsp(<<>>, 105, 130),
          Rsp(<<>>, 159, 4), Rsp(<<>>, 97, 4)}
    ELSE {Rsp(R_FF, 144, 0), Rsp(<<>>, 106, 131)}

\* first records of EF_DIR: two applications, a template without tag 4F
DIR_USIM == <<97, 9, 79, 5, 160, 0, 0, 0, 135, 80, 0, 255, 255>>

DIR_OTHER == <<97, 9, 79, 5, 160, 0, 0, 0, 136, 80, 0, 255, 255>>

DIR_NOAID == <<97, 4, 80, 2, 85, 83, 255, 255>>

\* answers to the READ RECORD of EF_DIR; the last one declares a tag 4F of two
\* bytes
DirRecordResponses ==
    {Rsp(DIR_USIM, 144, 0), Rsp(DIR_OTHER, 144, 0), Rsp(DIR_NOAID, 144, 0), Rsp(<<>>, 144, 0),
     Rsp(<<>>, 106, 131), Rsp(<<97, 4, 79, 2, 160, 0, 255, 255>>, 144, 0)}

\* answers to the READ RECORD 1 of MSISDN and SMSP
ReadRecord1Responses ==
    {Rsp(R_NUM, 144, 0), Rsp(R_NUM, 144, 1), Rsp(<<>>, 106, 131), Rsp(<<>>, 159, 4)}

\* answers to a select whose response data is not looked at (MF, DF, EF_DIR, AID)
PlainSelectResponses ==
    {Rsp(<<>>, 144, 0), Rsp(<<>>, 159, 15), Rsp(<<>>, 97, 15), Rsp(<<>>, 106, 130)}

\* answers to a class 00 select of select_usim (EF_DIR, an AID)
UsimSelectResponses == PlainSelectResponses \cup {Rsp(<<>>, 144, 1)}

\* answers to the GET RESPONSE that follows such a select, or a READ BINARY
PlainGetResponses == {Rsp(B_ICCID, 144, 0), Rsp(<<>>, 111, 0)}

----------------------------------------------------------------------------
(* State *)

VARIABLES
    pc,           \* the next exchange of read_all / select_usim
    fi,           \* the catalogue entry read_all is at (0: the opening select)
    inGR,         \* the callee is about to send GET RESPONSE
    p3,           \* the callee's sw2, the length GET RESPONSE will ask for
    data, sw1, sw2,        \* locals of read_all
    is_usim, usim_aid,     \* SIMReader fields (usim_aid: <<>> is None, <<aid>> a list)
    use_usim, record_len, num_records, rec, found,   \* locals of a record block
    lastCmd,      \* the last frame handed to the transport
    lastSW,       \* the status bytes the card answered it with
    lastData,     \* the data the card answered it with
    lastSel,      \* the last select-by-file-id frame handed to the transport
    lastOut,      \* what read_all did with the last answer
    exc,          \* the exception that ended read_all, "" if none
    dName, dArg, dIn, dOut \* the decoder applied, its extra argument, input and result

vars ==
    <<pc, fi, inGR, p3, data, sw1, sw2, is_usim, usim_aid, use_usim, record_len,
      num_records, rec, found, lastCmd, lastSW, lastData, lastSel, lastOut, exc, dName,
      dArg, dIn, dOut>>

decVars == <<dName, dArg, dIn, dOut>>

sessVars ==
    <<pc, fi, inGR, p3, data, sw1, sw2, is_usim, usim_aid, use_usim, record_len,
      num_records, rec, found, lastCmd, lastSW, lastData, lastSel, lastOut, exc>>

\* the program state as a record, so that straight-line code composes
Cur ==
    [pc |-> pc, fi |-> fi, inGR |-> inGR, p3 |-> p3, data |-> data, sw1 |-> sw1, sw2 |-> sw2,
     is_usim |-> is_usim, usim_aid |-> usim_aid, use_usim |-> use_usim,
     record_len |-> record_len, num_records |-> num_records, rec |-> rec, found |-> found,
     lastOut |-> lastOut, exc |-> exc]

\* SIMReader.__init__ (lines 32-37) and the entry of read_all
InitState ==
    [pc |-> "mf0", fi |-> 0, inGR |-> FALSE, p3 |-> 0, data |-> <<>>, sw1 |-> 0, sw2 |-> 0,
     is_usim |-> FALSE, usim_aid |-> <<>>, use_usim |-> FALSE,
     record_len |-> 0, num_records |-> 0, rec |-> 0, found |-> 0,
     lastOut |-> "none", exc |-> ""]

\* the step: frame cmd was sent, the card answered r, the program went on to s
Becomes(s, cmd, r) ==
    /\ pc' = s.pc /\ fi' = s.fi /\ inGR' = s.inGR /\ p3' = s.p3
    /\ data' = s.data /\ sw1' = s.sw1 /\ sw2' = s.sw2
    /\ is_usim' = s.is_usim /\ usim_aid' = s.usim_aid
    /\ use_usim' = s.use_usim /\ record_len' = s.record_len /\ num_records' = s.num_records
    /\ rec' = s.rec /\ found' = s.found
    /\ lastOut' = s.lastOut /\ exc' = s.exc
    /\ lastCmd' = cmd
    /\ lastSW' = <<r.s1, r.s2>>
    /\ lastData' = r.d
    /\ lastSel' = IF IsSelectByFileId(cmd) THEN cmd ELSE lastSel
    /\ UNCHANGED decVars

----------------------------------------------------------------------------
(* read_all: what follows each exchange, up to the next one *)

\* read_all is left by an uncaught exception (main's handler, lines 1256-1262)
Abort(s, e) == [s EXCEPT !.pc = "aborted", !.exc = e]

\* the block of a file is over: on to the next block, or to the end of read_all
NextFile(s) ==
    IF s.fi = NumFiles THEN [s EXCEPT !.pc = "done"]
    ELSE [s EXCEPT !.pc = "mf", !.fi = s.fi + 1]

\* the locals of a record block as its block finds them: use_usim = False,
\* the entry counter 0 (lines 887, 894, 963, 973, ...); the record geometry and
\* the loop variable are assigned before their first use in every block
EnterFile(s) ==
    [s EXCEPT !.use_usim = FALSE, !.record_len = 0, !.num_records = 0, !.rec = 0,
              !.found = 0, !.lastOut = "none"]

\* a range stop that lets one more record through
WalkStopLate(num_records_, stop) == Min(num_records_ + 1, stop) + 1

\* the stop of range(1, min(num_records + 1, stop)) (lines 931, 974, 1015, 1056, 1107)
WalkStop(num_records_, stop) == Min(num_records_ + 1, stop)

\* record_len, num_records of the block of file k from the selection response d
Geometry(k, use_usim_, d) ==
    IF Files[k].name = "ADN" THEN AdnGeometry(use_usim_, d)
    ELSE IF Files[k].name = "SMS" THEN SmsGeometry(d)
    ELSE DialGeometry(d, Files[k].dflt)

\* the record loop is entered with the geometry of the selection response
StartWalk(s) ==
    LET g == Geometry(s.fi, s.use_usim, s.data)
        t == [s EXCEPT !.record_len = g.record_len, !.num_records = g.num_records,
                       !.found = 0, !.lastOut = "geometry"]
    IN IF g.raise THEN Abort(s, "IndexError")
       ELSE IF 1 < WalkStop(g.num_records, Files[s.fi].arg)
       THEN [t EXCEPT !.pc = "walk", !.rec = 1]
       ELSE NextFile(t)

\* the test in front of a record loop (lines 902, 969, 1010, 1051, 1097)
Gate(s) == IF WalkGate(s.sw1) THEN StartWalk(s) ELSE NextFile(s)

\* after data, sw1, sw2 = self.select_file_gsm(fid) of the file's block
AfterSelectEf(s) ==
    LET f == Files[s.fi]
    IN IF f.kind = "bin"
       THEN IF SelectOk(s.sw1) THEN [s EXCEPT !.pc = "rb", !.lastOut = "read"]
            ELSE NextFile(s)
       ELSE IF f.kind = "rec1"
       THEN IF SelectOk(s.sw1)
            THEN [s EXCEPT !.pc = "rr1", !.lastOut = "geometry",
                           !.record_len = IF Len(s.data) > 14 THEN At(s.data, 14) ELSE f.arg]
            ELSE NextFile(s)
       ELSE IF ~SelectOk(s.sw1) THEN [s EXCEPT !.pc = "u_mf"]
            ELSE Gate(s)

\* select_file_gsm returned r to its call site
ReturnSelectGsm(s, r) ==
    IF s.pc = "mf0" THEN [s EXCEPT !.pc = "mf", !.fi = 1]
    ELSE IF s.pc = "mf"
    THEN [EnterFile(s) EXCEPT !.pc = IF Files[s.fi].df THEN "df" ELSE "ef"]
    ELSE IF s.pc = "df" THEN [s EXCEPT !.pc = "ef"]
    ELSE IF s.pc = "u_mf" THEN [s EXCEPT !.pc = "u_dir"]
    ELSE AfterSelectEf([s EXCEPT !.data = r.d, !.sw1 = r.s1, !.sw2 = r.s2])

\* after data, sw1, sw2 = self.read_binary(n): decode when sw1 == 0x90
\* (HPLMN and Phase: and data) (lines 694, 708, ..., 862, 879)
AfterReadBinary(s, r) ==
    LET t == [s EXCEPT !.data = r.d, !.sw1 = r.s1, !.sw2 = r.s2]
        guarded == Files[s.fi].name \in {"HPLMN", "Phase"}
        decode == ReadOk(r.s1) /\ (guarded => r.d # <<>>)
        u == [t EXCEPT !.lastOut = IF decode THEN "decoded" ELSE "ignored"]
    IN NextFile(u)

\* after data, sw1, sw2 = self.read_record(1, record_len) of MSISDN and SMSP
AfterReadRecord1(s, r) ==
    LET t == [s EXCEPT !.data = r.d, !.sw1 = r.s1, !.sw2 = r.s2]
        v == IF Files[s.fi].name = "MSISDN" THEN decode_msisdn(r.d) ELSE decode_smsp(r.d)
    IN IF ~ReadOk(r.s1) THEN NextFile([t EXCEPT !.lastOut = "ignored"])
       ELSE IF v.t = "raise" THEN Abort(t, "IndexError")
       ELSE NextFile([t EXCEPT !.lastOut = "decoded"])

\* the next iteration of a record loop, or its end
Advance(s) ==
    IF s.rec + 1 < WalkStop(s.num_records, Files[s.fi].arg)
    THEN [s EXCEPT !.rec = s.rec + 1]
    ELSE NextFile(s)

\* alpha or number of a contact record (lines 941-946); LND counts on number alone (1069)
ContactEntry(k, record_len_, d) ==
    LET alpha_len == record_len_ - 14
        alpha == decode_alpha_id(SliceTo(d, alpha_len))
        number == decode_bcd_number(SliceFrom(d, alpha_len), TRUE)
    IN IF alpha.t = "raise" \/ number.t = "raise" THEN "raise"
       ELSE IF Files[k].name = "LND"
       THEN IF Truthy(number) THEN "entry" ELSE "absent"
       ELSE IF Truthy(alpha) \/ Truthy(number) THEN "entry" ELSE "absent"

\* what the body of a record loop makes of a record read with sw1 == 0x90 and data:
\* "skipped", "absent", "entry" or "raise" (lines 937-948, 1113-1116)
RecordOutcome(k, record_len_, d) ==
    IF Files[k].name = "SMS"
    THEN LET sms == decode_sms(d)
         IN IF sms.t = "raise" THEN "raise"
            ELSE IF Truthy(sms) THEN "entry" ELSE "absent"
    ELSE IF AllFF(d) THEN "skipped"
    ELSE ContactEntry(k, record_len_, d)

\* one iteration of a record loop after its read was answered r
AfterWalkRead(s, r) ==
    LET t == [s EXCEPT !.data = r.d, !.sw1 = r.s1, !.sw2 = r.s2]
        o == RecordOutcome(s.fi, s.record_len, r.d)
    IN IF ReadOk(r.s1) /\ r.d # <<>>
       THEN IF o = "raise" THEN Abort(t, "IndexError")
            ELSE Advance([t EXCEPT !.lastOut = o,
                                   !.found = IF o = "entry" THEN s.found + 1 ELSE s.found])
       ELSE IF IsRecordNotFound(r.s1, r.s2) THEN NextFile([t EXCEPT !.lastOut = "stop"])
       ELSE Advance([t EXCEPT !.lastOut = "ignored"])

----------------------------------------------------------------------------
(* select_usim (lines 96-167) and select_file_usim (lines 169-183) *)

\* the success test of select_usim (lines 109, 119, 129, 163)
UsimOk(s1) == s1 = 144

\* not self.usim_aid
NoAid(aid) == aid = <<>> \/ aid[1] = <<>>

\* select_usim returned ok to its call site (lines 898-900, 965-967, ...)
ReturnSelectUsim(s, ok) == IF ok THEN [s EXCEPT !.pc = "u_ef"] ELSE Gate(s)

\* after the select of EF_DIR and its continuation (line 109)
AfterSelectDir(s, r) ==
    IF ~UsimOk(r.s1) THEN [s EXCEPT !.pc = "u_def"] ELSE [s EXCEPT !.pc = "u_rec"]

\* after the select of the default AID and its continuation (lines 119-123)
AfterSelectDefault(s, r) ==
    IF UsimOk(r.s1)
    THEN ReturnSelectUsim([s EXCEPT !.is_usim = TRUE, !.usim_aid = <<DefaultAid>>], TRUE)
    ELSE ReturnSelectUsim(s, FALSE)

\* after the read of the first record of EF_DIR (lines 129-154)
AfterReadDir(s, r) ==
    LET p == DirScan(r.d, 0)
        a == IF UsimOk(r.s1) /\ r.d # <<>> /\ p.found THEN <<p.aid>> ELSE s.usim_aid
    IN [s EXCEPT !.pc = "u_aid", !.usim_aid = IF NoAid(a) THEN <<DefaultAid>> ELSE a]

\* after the select of self.usim_aid and its continuation (lines 163-167)
AfterSelectAid(s, r) ==
    IF UsimOk(r.s1) THEN ReturnSelectUsim([s EXCEPT !.is_usim = TRUE], TRUE)
    ELSE ReturnSelectUsim(s, FALSE)

\* after data, sw1, sw2 = self.select_file_usim(fid); use_usim = True
AfterSelectFileUsim(s, r) ==
    Gate([s EXCEPT !.data = r.d, !.sw1 = r.s1, !.sw2 = r.s2, !.use_usim = TRUE])

\* the continuation of a class 00 select, by the place it was sent from
AfterUsimSelect(s, r) ==
    IF s.pc = "u_dir" THEN AfterSelectDir(s, r)
    ELSE IF s.pc = "u_def" THEN AfterSelectDefault(s, r)
    ELSE IF s.pc = "u_aid" THEN AfterSelectAid(s, r)
    ELSE AfterSelectFileUsim(s, r)

----------------------------------------------------------------------------
(* The exchanges: one action per command sent *)

GsmSelectSteps == {"mf0", "mf", "df", "ef", "u_mf"}

UsimSelectSteps == {"u_dir", "u_def", "u_aid"}

\* the file a select_file_gsm call names, by its call site
GsmSelectFid == IF pc = "df" THEN DF_GSM ELSE IF pc = "ef" THEN Files[fi].fid ELSE MF

\* select_file_gsm: the SELECT (lines 63-64); on 9F the GET RESPONSE is next
SelectFileGsm ==
    /\ pc \in GsmSelectSteps /\ ~inGR
    /\ \E r \in (IF pc = "ef" THEN SelectResponses ELSE PlainSelectResponses) :
         Becomes(IF MoreDataGsm(r.s1) THEN [Cur EXCEPT !.inGR = TRUE, !.p3 = r.s2]
                 ELSE ReturnSelectGsm(Cur, r),
                 SelectGsmApdu(GsmSelectFid), r)

\* select_file_gsm: the GET RESPONSE (lines 71-75)
SelectFileGsmGetResponse ==
    /\ pc \in GsmSelectSteps /\ inGR
    /\ \E r \in (IF pc = "ef" THEN GetResponseResponses ELSE PlainGetResponses) :
         Becomes(ReturnSelectGsm([Cur EXCEPT !.inGR = FALSE], r), GetResponseApdu(160, p3), r)

\* read_binary: the READ BINARY (lines 81-82)
ReadBinary ==
    /\ pc = "rb" /\ ~inGR
    /\ \E r \in ReadBinaryResponses :
         Becomes(IF MoreDataGsm(r.s1) THEN [Cur EXCEPT !.inGR = TRUE, !.p3 = r.s2]
                 ELSE AfterReadBinary(Cur, r),
                 ReadBinaryApdu(160, Files[fi].arg, 0), r)

\* read_binary: the GET RESPONSE (lines 84-86)
ReadBinaryGetResponse ==
    /\ pc = "rb" /\ inGR
    /\ \E r \in PlainGetResponses :
         Becomes(AfterReadBinary([Cur EXCEPT !.inGR = FALSE], r), GetResponseApdu(160, p3), r)

\* read_record(1, record_len) of the MSISDN and SMSP blocks (lines 739, 759)
ReadRecord1 ==
    /\ pc = "rr1"
    /\ \E r \in ReadRecord1Responses :
         Becomes(AfterReadRecord1(Cur, r), ReadRecordApdu(160, 1, record_len), r)

\* one read of a record loop: read_record_usim or read_record (lines 932-935 and alike)
WalkReadRecord ==
    /\ pc = "walk"
    /\ \E r \in ReadRecordResponses(rec) :
         Becomes(AfterWalkRead(Cur, r),
                 ReadRecordApdu(IF use_usim THEN 0 ELSE 160, rec, record_len), r)

\* select_usim: a class 00 SELECT of EF_DIR or of an AID (lines 102, 112, 156)
UsimSelect ==
    /\ pc \in UsimSelectSteps /\ ~inGR
    /\ \E r \in UsimSelectResponses :
         Becomes(IF MoreDataUsim(r.s1) THEN [Cur EXCEPT !.inGR = TRUE, !.p3 = r.s2]
                 ELSE AfterUsimSelect(Cur, r),
                 IF pc = "u_dir" THEN SelectUsimApdu(EF_DIR)
                 ELSE IF pc = "u_def" THEN SelectAidApdu(DefaultAid)
                 ELSE SelectAidApdu(usim_aid[1]), r)

\* select_usim: the GET RESPONSE after such a SELECT (lines 105-107, 115-117, 159-161)
UsimGetResponse ==
    /\ pc \in UsimSelectSteps /\ inGR
    /\ \E r \in PlainGetResponses :
         Becomes(AfterUsimSelect([Cur EXCEPT !.inGR = FALSE], r), GetResponseApdu(0, p3), r)

\* select_usim: READ RECORD 1 of EF_DIR (lines 126-127)
UsimReadDirRecord ==
    /\ pc = "u_rec"
    /\ \E r \in DirRecordResponses :
         Becomes(AfterReadDir(Cur, r), ReadRecordApdu(0, 1, 32), r)

\* select_file_usim: the SELECT (lines 171-172)
SelectFileUsim ==
    /\ pc = "u_ef" /\ ~inGR
    /\ \E r \in SelectResponses :
         Becomes(IF MoreDataUsim(r.s1) THEN [Cur EXCEPT !.inGR = TRUE, !.p3 = r.s2]
                 ELSE AfterUsimSelect(Cur, r),
                 SelectUsimApdu(Files[fi].fid), r)

\* select_file_usim: the GET RESPONSE (lines 177-181)
SelectFileUsimGetResponse ==
    /\ pc = "u_ef" /\ inGR
    /\ \E r \in GetResponseResponses :
         Becomes(AfterUsimSelect([Cur EXCEPT !.inGR = FALSE], r), GetResponseApdu(0, p3), r)

Init ==
    /\ pc = InitState.pc /\ fi = InitState.fi /\ inGR = InitState.inGR /\ p3 = InitState.p3
    /\ data = InitState.data /\ sw1 = InitState.sw1 /\ sw2 = InitState.sw2
    /\ is_usim = InitState.is_usim /\ usim_aid = InitState.usim_aid
    /\ use_usim = InitState.use_usim /\ record_len = InitState.record_len
    /\ num_records = InitState.num_records /\ rec = InitState.rec /\ found = InitState.found
    /\ lastOut = InitState.lastOut
    /\ exc = InitState.exc
    /\ lastCmd = <<>> /\ lastSW = <<144, 0>> /\ lastData = <<>> /\ lastSel = <<>>
    /\ dName = "" /\ dArg = <<>> /\ dIn = <<>> /\ dOut = NoneV

Next ==
    \/ SelectFileGsm
    \/ SelectFileGsmGetResponse
    \/ ReadBinary
    \/ ReadBinaryGetResponse
    \/ ReadRecord1
    \/ WalkReadRecord
    \/ UsimSelect
    \/ UsimGetResponse
    \/ UsimReadDirRecord
    \/ SelectFileUsim
    \/ SelectFileUsimGetResponse

Spec == Init /\ [][Next]_vars

----------------------------------------------------------------------------
(* The decoders on their own: every decoder applied to every sample input *)

\* the longest input taken from every combination of DecBytes
MaxDecLen == 2

\* the largest character count handed to decode_gsm7: the bit offset comes
\* back to 0 after 8 characters
MaxChars == 9

\* bytes the decoders tell apart: status, length, type and filler values, and
\* a byte with a nibble above 9
DecBytes == {0, 1, 5, 26, 128, 129, 145, 255}

RECURSIVE SeqsUpTo(_, _)
SeqsUpTo(S, n) ==
    IF n = 0 THEN {<<>>}
    ELSE LET shorter == SeqsUpTo(S, n - 1)
         IN shorter \cup {Append(q, b) : q \in shorter, b \in S}

Prefixes(q) == {SubSeq(q, 1, n) : n \in 0..Len(q)}

\* EF_IMSI content, an MSISDN record (4 bytes of name), an EF_LOCI content,
\* two PLMN entries, a received and a sent short message; DecInputs adds the
\* 7-bit packing of "hellohello", the examples [0x31] and 21 F3 64, the trailer
\* of the MSISDN record, two names in the 0x80 and 0x81 forms, a message
\* record of type bits 10, a PLMN group FF FF 0F, an IMSI of 14 digits and one
\* with the count byte 15, sent messages with the
\* validity-period bits 00, 11 and 01, a received and a sent message of the same
\* user data under six coding schemes, the selection responses of the card and control
\* templates with the byte 0x82 inside a tag 80, inside a tag 85 and nowhere
S_IMSI == <<8, 41, 67, 16, 50, 84, 118, 152, 16>>

S_MSISDN == <<77, 101, 255, 255, 5, 145, 33, 67, 101, 247, 255, 255, 255, 255, 255, 255, 255, 255>>

S_LOCI == <<18, 52, 86, 120, 19, 0, 20, 0, 1, 0, 0>>

S_PLMN == <<19, 240, 20, 255, 255, 255>>

S_DELIVER == <<1, 3, 145, 33, 67, 4, 4, 145, 33, 67, 0, 0, 66, 16, 64, 33, 67, 101, 0, 2, 200, 50>>

S_SUBMIT == <<7, 0, 17, 0, 4, 129, 33, 67, 0, 8, 170, 2, 0, 65>>

S_UCS2 == <<128, 0, 65, 0, 66>>

DecInputs ==
    SeqsUpTo(DecBytes, MaxDecLen) \cup Prefixes(S_IMSI) \cup Prefixes(S_MSISDN)
      \cup Prefixes(S_LOCI) \cup Prefixes(S_PLMN) \cup Prefixes(S_DELIVER)
      \cup Prefixes(S_SUBMIT) \cup Prefixes(S_UCS2)
      \cup Prefixes(<<232, 50, 155, 253, 70, 151, 217, 236, 55>>) \cup {<<49>>, <<33, 243, 100>>}
      \cup {SubSeq(S_MSISDN, 5, 18)}
      \cup Prefixes(<<128, 0, 32, 0, 65, 255, 66>>)
      \cup Prefixes(<<129, 1, 8, 133, 65, 255, 66>>)
      \cup {<<1, 0, 2, 0, 0>>, <<255, 255, 15>>}
      \cup {<<8, 41, 67, 16, 50, 84, 118, 152, 240>>, <<15, 41, 67, 16, 50, 84, 118, 152, 16>>}
      \cup {<<7, 0, 1, 0, 4, 129, 33, 67, 0, 8, 2, 0, 65>>,
            <<7, 0, 25, 0, 4, 129, 33, 67, 0, 8, 1, 2, 3, 4, 5, 6, 7, 2, 0, 65>>,
            <<7, 0, 9, 0, 4, 129, 33, 67, 0, 8, 1, 2, 3, 4, 5, 6, 7, 2, 0, 65>>}
      \cup {<<1, 0, 4, 4, 145, 33, 67, 0, dcs, 66, 16, 64, 33, 67, 101, 0, 2, 200, 50>> :
               dcs \in {0, 4, 8, 12, 25, 241}}
      \cup {<<7, 0, 1, 0, 4, 129, 33, 67, 0, dcs, 2, 200, 50>> : dcs \in {0, 4, 8, 12, 25, 241}}
      \cup SelData
      \cup Prefixes(<<128, 2, 130, 5, 130, 5, 66, 0, 4, 3>>)
      \cup {<<133, 2, 130, 5, 66, 33, 0, 4, 3>>, <<128, 2, 0, 40, 131, 2, 111, 58>>}
      \cup {<<n, ton, 33, 67, b, 135, 255, 255, 255, 255, 255, 255, 255, 255>> :
               n \in {1, 3, 5, 11}, ton \in {129, 145}, b \in {42, 101, 255}}

\* decoder name was called with dIn (and the extra argument arg) and returned out
Decoded(name, arg, out) ==
    /\ dName = ""
    /\ dName' = name /\ dArg' = arg /\ dOut' = out
    /\ UNCHANGED <<dIn, sessVars>>

ApplyDecodeImsi == Decoded("decode_imsi", <<>>, decode_imsi(dIn))

ApplyDecodeIccid == Decoded("decode_iccid", <<>>, decode_iccid(dIn))

ApplyDecodeMsisdn == Decoded("decode_msisdn", <<>>, decode_msisdn(dIn))

ApplyDecodeSmsp == Decoded("decode_smsp", <<>>, decode_smsp(dIn))

ApplyDecodePlmn == Decoded("decode_plmn", <<>>, decode_plmn(dIn))

ApplyDecodeLoci == Decoded("decode_loci", <<>>, decode_loci(dIn))

ApplyDecodeAlphaId == Decoded("decode_alpha_id", <<>>, decode_alpha_id(dIn))

ApplyDecodeBcdNumber ==
    \E include_ton \in BOOLEAN :
        Decoded("decode_bcd_number", <<include_ton>>, decode_bcd_number(dIn, include_ton))

ApplyDecodeSms == Decoded("decode_sms", <<>>, decode_sms(dIn))

ApplyDecodeGsm7 ==
    \E num_chars \in 0..MaxChars :
        Decoded("decode_gsm7", <<num_chars>>, decode_gsm7(dIn, num_chars))

\* the geometry of a record file block derived from dIn as selection response,
\* under either dialect (lines 902-929, 969-971, 1010-1012, 1051-1053, 1097-1103)
ApplyGeometry ==
    \E k \in {n \in 1..NumFiles : Files[n].kind = "walk"}, use_usim_ \in BOOLEAN :
        LET g == Geometry(k, use_usim_, dIn)
        IN Decoded("geometry", <<Files[k].name, use_usim_>>,
                   [t |-> "geometry", raise |-> g.raise, record_len |-> g.record_len,
                    num_records |-> g.num_records])

DecInit ==
    /\ pc = InitState.pc /\ fi = InitState.fi /\ inGR = InitState.inGR /\ p3 = InitState.p3
    /\ data = InitState.data /\ sw1 = InitState.sw1 /\ sw2 = InitState.sw2
    /\ is_usim = InitState.is_usim /\ usim_aid = InitState.usim_aid
    /\ use_usim = InitState.use_usim /\ record_len = InitState.record_len
    /\ num_records = InitState.num_records /\ rec = InitState.rec /\ found = InitState.found
    /\ lastOut = InitState.lastOut /\ exc = InitState.exc
    /\ lastCmd = <<>> /\ lastSW = <<144, 0>> /\ lastData = <<>> /\ lastSel = <<>>
    /\ dName = "" /\ dArg = <<>> /\ dOut = NoneV
    /\ dIn \in DecInputs

DecNext ==
    \/ ApplyDecodeImsi
    \/ ApplyDecodeIccid
    \/ ApplyDecodeMsisdn
    \/ ApplyDecodeSmsp
    \/ ApplyDecodePlmn
    \/ ApplyDecodeLoci
    \/ ApplyDecodeAlphaId
    \/ ApplyDecodeBcdNumber
    \/ ApplyDecodeSms
    \/ ApplyDecodeGsm7
    \/ ApplyGeometry

DecSpec == DecInit /\ [][DecNext]_vars

----------------------------------------------------------------------------
(* Properties of the exchanges *)

\* a step of a record loop: the READ RECORD of record rec is sent and answered
InWalk == pc = "walk"

\* the walk of the file is over: read_all is at the next block, or at its end
WalkLeft == pc \in {"mf", "done"}

\* the status of a read that is neither success, more-data nor record-not-found
IsOtherError(s1, s2) ==
    ~(s1 = 144 /\ s2 = 0) /\ s1 # 159 /\ s1 # 97 /\ ~(s1 = 106 /\ s2 = 131)

\* the configured ceiling of a record walk
WalkCeiling(name) == IF name = "ADN" THEN 250 ELSE IF name = "LND" THEN 20 ELSE 50

\* the answer data' of the read just made is an unused slot: bytes, all of them 0xFF
SentinelRead == lastSW'[1] = 144 /\ data' # <<>> /\ \A j \in 1..Len(data') : data'[j] = 255

\* C1: a select, READ BINARY or READ RECORD answered 9F xx or 61 xx is followed at
\* once by a GET RESPONSE whose P3 is xx.
C1_GetResponseFollows ==
    [][((IsSelect(lastCmd) \/ IsReadBinary(lastCmd) \/ IsReadRecord(lastCmd))
          /\ lastSW[1] \in {159, 97})
        => (IsGetResponse(lastCmd') /\ lastCmd'[5] = lastSW[2])]_vars

\* C2: read_all handles a result as success (reads the selected file, takes its
\* geometry, decodes it, reports an entry) only when the final status is 90 00.
C2_SuccessOnly9000 ==
    lastOut \in {"read", "geometry", "decoded", "entry", "absent"} => (sw1 = 144 /\ sw2 = 0)

\* C3: in a record walk the READ RECORD answered 6A 83 is the last one of the
\* file: the walk is left for the next file (the catalogue is never walked
\* backwards) and the number of entries reported stays what it was.
C3_NotFoundEndsWalk ==
    [][/\ fi' >= fi
       /\ (InWalk /\ lastSW' = <<106, 131>>)
            => /\ WalkLeft'
               /\ lastOut' = "stop"
               /\ found' = found
               /\ (pc' = "mf" => fi' = fi + 1)]_vars

\* C3, the example: 10 records of 4 bytes, three entries and an unused slot in
\* records 1 to 4, 6A 83 at record 5: the walk is over with three entries.
C3_ExampleReached ==
    /\ pc = "mf" /\ lastOut = "stop"
    /\ lastCmd = ReadRecordApdu(160, 5, 4) /\ lastSW = <<106, 131>>
    /\ record_len = 4 /\ num_records = 10 /\ found = 3

\* C4: in a record walk a READ RECORD answered an error status other than 6A 83
\* ends the walk of the file.
C4_OtherErrorEndsWalk ==
    [][(InWalk /\ IsOtherError(lastSW'[1], lastSW'[2])) => ~InWalk']_vars

C6_RecordNumbers ==
    [][/\ InWalk => /\ lastCmd' \in {ReadRecordApdu(160, rec, record_len),
                                     ReadRecordApdu(0, rec, record_len)}
                    /\ 1 <= rec
                    /\ rec <= Min(num_records, WalkCeiling(Files[fi].name))
       /\ InWalk' => rec' = IF InWalk THEN rec + 1 ELSE 1
       /\ (InWalk /\ InWalk') => (fi' = fi /\ num_records' = num_records)]_vars

\* C6: record 250 of an ADN file of more than 250 records is about to be read.
C6_CeilingReached ==
    InWalk /\ Files[fi].name = "ADN" /\ rec = 250 /\ num_records > 250

\* C7: no READ RECORD is sent with a length of 0.
C7_NoZeroLengthRead == IsReadRecord(lastCmd) => lastCmd[5] # 0

\* C8: whatever the card answers, read_all is not left by an exception.
C8_NeverAborts == pc # "aborted" /\ exc = ""

\* C9: no decoder raises, whatever the input and its length.
C9_DecodersTotal == dOut.t # "raise"

\* C10: once usim_aid is set it never changes, and EF_DIR is not selected again.
C10_AidReused ==
    [][usim_aid # <<>>
        => (usim_aid' = usim_aid /\ lastCmd' # SelectUsimApdu(EF_DIR))]_vars

----------------------------------------------------------------------------
(* Properties of the application resolution (select_usim) *)

\* the tags of the objects laid out tag, length, value in d from position i up to end
RECURSIVE TlvTags(_, _, _)
TlvTags(d, i, end) ==
    IF i + 1 >= Min(end, Len(d)) THEN {}
    ELSE {At(d, i)} \cup TlvTags(d, i + 2 + At(d, i + 1), end)

\* the record begins with an application template 61 that holds a tag 4F
HasAidTag(d) == Len(d) >= 2 /\ At(d, 0) = 97 /\ 79 \in TlvTags(d, 2, 2 + At(d, 1))

\* success as the specification classifies it, and as select_usim tests it
Is9000(s1, s2) == s1 = 144 /\ s2 = 0

Sw1Is90(s1, s2) == s1 = 144

\* a step of select_usim in a session without a discovered identifier: the
\* default AID is selected after a failed EF_DIR select, an unreadable record or
\* a record without tag 4F, and select_usim returns True (goes on to select the
\* file under the application) exactly when that select succeeded
DefaultFallback(Success(_, _)) ==
    /\ (pc = "u_dir" /\ usim_aid = <<>> /\ ~inGR' /\ ~Success(lastSW'[1], lastSW'[2]))
         => pc' = "u_def"
    /\ (pc = "u_rec" /\ usim_aid = <<>>
          /\ (~Success(lastSW'[1], lastSW'[2]) \/ ~HasAidTag(lastData')))
         => (pc' = "u_aid" /\ usim_aid' = <<DefaultAid>>)
    /\ (~inGR /\ (pc = "u_def" \/ (pc = "u_aid" /\ usim_aid = <<DefaultAid>>)))
         => lastCmd' = SelectAidApdu(DefaultAid)
    /\ (~inGR' /\ (pc = "u_def" \/ (pc = "u_aid" /\ usim_aid = <<DefaultAid>>)))
         => (pc' = "u_ef" <=> Success(lastSW'[1], lastSW'[2]))

\* C11: with no identifier discovered, a failed EF_DIR select, an unreadable
\* first record or a record without tag 4F in a template 61 leads to the select
\* of the default AID, and select_usim reports success exactly when that select
\* ended in 90 00.
C11_DefaultAidFallback == [][DefaultFallback(Is9000)]_vars

\* C11 with success read as select_usim tests it (SW1 = 90, any SW2)
C11_DefaultAidFallbackSw1 == [][DefaultFallback(Sw1Is90)]_vars

----------------------------------------------------------------------------
(* Properties of the dialect and of the selection sequence *)

IsRead(apdu) == IsReadBinary(apdu) \/ IsReadRecord(apdu)

\* C12: a READ BINARY or READ RECORD carries the class byte of the most recent
\* select-by-file-id, and a GET RESPONSE the class byte of the command it
\* continues.
C12_DialectKept ==
    [][/\ IsRead(lastCmd') => (lastSel' # <<>> /\ lastCmd'[1] = lastSel'[1])
       /\ IsGetResponse(lastCmd') => (lastCmd # <<>> /\ lastCmd'[1] = lastCmd[1])]_vars

\* the file a read is attributed to: EF_DIR inside select_usim, else the file of
\* the block read_all is in
ReadFile == IF pc = "u_rec" THEN EF_DIR ELSE Files[fi].fid

\* C13: every block of the catalogue opens with the select of 3F00, and when a
\* read is sent the file last selected by file id is the file the read is
\* attributed to.
C13_SelectionSequence ==
    [][/\ IsRead(lastCmd')
            => /\ Len(lastSel') = 7
               /\ lastSel'[6] * 256 + lastSel'[7] = ReadFile
       /\ (fi' # fi /\ pc' \notin {"done", "aborted"}) => pc' = "mf"
       /\ (pc = "mf" /\ ~inGR) => lastCmd' = SelectGsmApdu(MF)]_vars

----------------------------------------------------------------------------
(* Properties of the decoders *)

\* no nibble of d is the filler 0xF
NoFiller(d) == \A k \in 1..Len(d) : LowNibble(d[k]) # 15 /\ HighNibble(d[k]) # 15

\* a digit string packed two digits a byte, first digit in the low nibble, a
\* last odd digit with the filler 0xF above it
RECURSIVE SemiOctetEncode(_)
SemiOctetEncode(str) ==
    IF str = <<>> THEN <<>>
    ELSE IF Len(str) = 1 THEN <<(str[1] - 48) + 16 * 15>>
    ELSE <<(str[1] - 48) + 16 * (str[2] - 48)>> \o SemiOctetEncode(SubSeq(str, 3, Len(str)))

\* C14: a buffer without a filler nibble is got back by packing the digit string
\* decode_iccid made of it.
C14_SemiOctetRoundTrip ==
    (dName = "decode_iccid" /\ NoFiller(dIn)) => SemiOctetEncode(dOut.s) = dIn

\* bit n of the bit-stream that starts at the least-significant bit of byte 0
StreamBit(d, n) == (d[(n \div 8) + 1] \div Pow2(n % 8)) % 2

\* the value of bits 7k .. 7k+6 of the bit-stream, bit 7k the lowest
StreamSeptet(d, k) ==
    StreamBit(d, 7 * k) + 2 * StreamBit(d, 7 * k + 1) + 4 * StreamBit(d, 7 * k + 2)
      + 8 * StreamBit(d, 7 * k + 3) + 16 * StreamBit(d, 7 * k + 4)
      + 32 * StreamBit(d, 7 * k + 5) + 64 * StreamBit(d, 7 * k + 6)

\* C15: with at least ceil(7N/8) bytes decode_gsm7 returns N characters, the
\* k-th the table entry indexed by bits 7k..7k+6 of the bit-stream.
C15_Gsm7BitStream ==
    (dName = "decode_gsm7" /\ Len(dIn) >= (7 * dArg[1] + 7) \div 8) =>
        /\ dOut.t = "str"
        /\ Len(dOut.s) = dArg[1]
        /\ \A k \in 0..(dArg[1] - 1) : dOut.s[k + 1] = gsm7_basic[StreamSeptet(dIn, k) + 1]

\* eight characters of "hellohello" were unpacked, crossing every bit offset
C15_HelloUnpacked ==
    /\ dName = "decode_gsm7" /\ dArg = <<8>> /\ Len(dIn) >= 7
    /\ dOut = StrV(<<104, 101, 108, 108, 111, 104, 101, 108>>)

\* [0x31] with N = 1 gave the character at index 0x31
C15_ExampleReached ==
    dName = "decode_gsm7" /\ dArg = <<1>> /\ dIn = <<49>> /\ dOut = StrV(<<gsm7_basic[50]>>)

\* the complete 3-byte groups of d that are not FF FF FF, in order
PlmnGroups(d) ==
    SelectSeq([k \in 1..(Len(d) \div 3) |-> SubSeq(d, 3 * k - 2, 3 * k)],
              LAMBDA g : g # <<255, 255, 255>>)

\* "ccc-nn" or "ccc-nnn" of one group, one character a nibble
PlmnText(g) ==
    <<48 + LowNibble(g[1]), 48 + HighNibble(g[1]), 48 + LowNibble(g[2]), 45,
      48 + LowNibble(g[3]), 48 + HighNibble(g[3])>>
      \o (IF HighNibble(g[2]) = 15 THEN <<>> ELSE <<48 + HighNibble(g[2])>>)

\* C16: decode_plmn gives one entry for every complete group that is not
\* FF FF FF and none for the others; the entry is the three country code digits
\* and the two or three network code digits of the group.
C16_PlmnDigits ==
    dName = "decode_plmn" =>
        /\ dOut.t = "list"
        /\ Len(dOut.l) = Len(PlmnGroups(dIn))
        /\ \A k \in 1..Len(PlmnGroups(dIn)) : dOut.l[k] = PlmnText(PlmnGroups(dIn)[k])

\* the same for the groups whose nibbles are decimal digits or the filler of a
\* two-digit network code
PlmnDecimal(g) ==
    /\ LowNibble(g[1]) < 10 /\ HighNibble(g[1]) < 10 /\ LowNibble(g[2]) < 10
    /\ LowNibble(g[3]) < 10 /\ HighNibble(g[3]) < 10
    /\ (HighNibble(g[2]) < 10 \/ HighNibble(g[2]) = 15)

C16_PlmnDecimalDigits ==
    dName = "decode_plmn" =>
        /\ dOut.t = "list"
        /\ Len(dOut.l) = Len(PlmnGroups(dIn))
        /\ \A k \in 1..Len(PlmnGroups(dIn)) :
              PlmnDecimal(PlmnGroups(dIn)[k]) => dOut.l[k] = PlmnText(PlmnGroups(dIn)[k])

\* [0x21, 0xF3, 0x64] gave the one entry "123-46"
C16_ExampleReached ==
    /\ dName = "decode_plmn" /\ dIn = <<33, 243, 100>>
    /\ dOut = [t |-> "list", l |-> <<<<49, 50, 51, 45, 52, 54>>>>]

\* the nibbles of bytes, low then high, without the fillers 0xF
RECURSIVE NonFiller(_)
NonFiller(bytes) ==
    IF bytes = <<>> THEN <<>>
    ELSE SelectSeq(<<LowNibble(bytes[1]), HighNibble(bytes[1])>>, LAMBDA n : n # 15)
           \o NonFiller(Tail(bytes))

\* num is the non-filler nibbles of bytes, one character a nibble and the
\* decimal digit for a nibble below 10, after a '+' exactly when ton is 0x91
NumberOf(num, ton, bytes) ==
    LET nib == NonFiller(bytes)
        plus == IF ton = 145 THEN 1 ELSE 0
    IN /\ Len(num) = plus + Len(nib)
       /\ plus = 1 => num[1] = 43
       /\ \A k \in 1..Len(nib) : nib[k] < 10 => num[plus + k] = 48 + nib[k]

\* what the claim asks of decode_msisdn on a record of 14 bytes or more:
\* absent on a BCD length of 00 or FF, else the number of the ten digit bytes
MsisdnAsClaimed(allowed(_)) ==
    (dName = "decode_msisdn" /\ Len(dIn) >= 14) =>
        LET a == Len(dIn) - 14
        IN IF dIn[a + 1] \in {0, 255} THEN dOut = NoneV
           ELSE \/ allowed(SubSeq(dIn, a + 3, a + 12))
                \/ /\ dOut.t = "dict"
                   /\ NumberOf(dOut.number, dIn[a + 2], SubSeq(dIn, a + 3, a + 12))

\* the same of decode_bcd_number on the trailer of a contact record: the
\* digit bytes are the bcd_len - 1 bytes after the type byte
BcdAsClaimed(allowed(_)) ==
    (dName = "decode_bcd_number" /\ dArg = <<TRUE>> /\ Len(dIn) >= 2) =>
        LET bytes == SubSeq(dIn, 3, Min(Len(dIn), dIn[1] + 1))
        IN IF dIn[1] \in {0, 255} THEN dOut = NoneV
           ELSE \/ allowed(bytes)
                \/ /\ dOut.t = "str"
                   /\ NumberOf(dOut.s, dIn[2], bytes)

NoBytes(bytes) == FALSE

\* digit bytes without a digit
NoDigits(bytes) == NonFiller(bytes) = <<>>

\* digit bytes without a digit, or with a nibble 0xA..0xE
NotDecimal(bytes) ==
    \/ NoDigits(bytes)
    \/ \E k \in 1..Len(NonFiller(bytes)) : NonFiller(bytes)[k] > 9

\* C17: on a BCD length other than 00 and FF the decoded number is the
\* non-filler nibbles of the digit bytes, low then high, after a '+' exactly
\* when the type byte is 0x91; on a BCD length of 00 or FF the result is absent.
\* A record without any digit is left out: its number has nothing to show.
C17_AddressNumber == MsisdnAsClaimed(NoDigits) /\ BcdAsClaimed(NoDigits)

\* the same with no record left out
C17_AddressNumberAlways == MsisdnAsClaimed(NoBytes) /\ BcdAsClaimed(NoBytes)

\* the same with the records of NotDecimal left out
C17_DecimalAddressNumber == MsisdnAsClaimed(NotDecimal) /\ BcdAsClaimed(NotDecimal)

\* the trailer 05 91 21 43 65 F7 FF .. FF decoded to +1234567
C17_ExampleReached ==
    /\ dName = "decode_bcd_number" /\ dArg = <<TRUE>> /\ dIn = SubSeq(S_MSISDN, 5, 18)
    /\ dOut = StrV(<<43, 49, 50, 51, 52, 53, 54, 55>>)

\* the bytes of d ahead of its first 0xFF
Name(d) ==
    IF \E k \in 1..Len(d) : d[k] = 255
    THEN SubSeq(d, 1, (CHOOSE k \in 1..Len(d) : d[k] = 255 /\ \A j \in 1..(k - 1) : d[j] # 255) - 1)
    ELSE d

\* the big-endian 16-bit units of an even number of bytes
Wide(b) == [k \in 1..(Len(b) \div 2) |-> b[2 * k - 1] * 256 + b[2 * k]]

WellFormedWide(b) ==
    Len(b) % 2 = 0 /\ \A k \in 1..(Len(b) \div 2) : Wide(b)[k] < 55296 \/ Wide(b)[k] > 57343

\* the characters of a name in the 0x81 form: count, base, data bytes
Chars81(c) ==
    [k \in 1..Min(c[2], Len(c) - 3) |->
        IF c[3 + k] < 128 THEN c[3 + k] ELSE c[3] * 128 + (c[3 + k] % 128)]

\* what decode_alpha_id is to return, the text put through trim and the 0x81
\* rule applied from short-th byte on
AlphaIdRule(trim(_), short) ==
    dName = "decode_alpha_id" =>
        LET c == Name(dIn)
        IN /\ dOut = NoneV <=> c = <<>>
           /\ (c # <<>> /\ c[1] = 128 /\ WellFormedWide(Tail(c))) =>
                 dOut = StrV(trim(Wide(Tail(c))))
           /\ (c # <<>> /\ c[1] = 129 /\ Len(c) >= short) => dOut = StrV(trim(Chars81(c)))
           /\ (c # <<>> /\ c[1] \notin {128, 129} /\ \A k \in 1..Len(c) : c[k] < 128) =>
                 dOut = StrV(trim(c))

Untrimmed(s) == s

\* C18 as stated: only the bytes before the first 0xFF count; the result is
\* absent exactly when there is none; after 0x80 the bytes are big-endian 16-bit
\* characters; after 0x81, count and base each data byte b gives b below 0x80
\* and base + (b & 0x7F) otherwise, for at most count characters.
C18_AlphaIdAsStated == AlphaIdRule(Untrimmed, 3)

\* C18: the same with the text stripped of the whitespace at its ends and the
\* 0x81 rule applied to a name of more than three bytes.
C18_AlphaId == AlphaIdRule(Strip, 4)

\* a name in the 0x81 form gave one character above the base, the announced
\* count and the first 0xFF cutting the rest
C18_Name81Decoded ==
    /\ dName = "decode_alpha_id" /\ dIn = <<129, 1, 8, 133, 65, 255, 66>>
    /\ dOut = StrV(<<1029>>)

\* [0x80, 0x00, 0x41, 0x00, 0x42] gave "AB"
C18_ExampleReached ==
    dName = "decode_alpha_id" /\ dIn = S_UCS2 /\ dOut = StrV(<<65, 66>>)

\* the PDU of a message record of two bytes or more: what follows the status
\* byte and the service centre address
SmsPdu(d) ==
    LET smsc_len == d[2]
    IN SubSeq(d, (IF smsc_len > 0 /\ smsc_len # 255 THEN 2 + smsc_len ELSE 2) + 1, Len(d))

\* the status and layout rules of decode_sms on the records of at least
\* shortest bytes
SmsRule(shortest) ==
    (dName = "decode_sms" /\ Len(dIn) >= shortest) =>
        /\ dIn[1] \in {0, 255} => dOut = NoneV
        /\ dIn[1] \notin {0, 255} =>
              /\ dOut.t = "dict"
              /\ (Len(dIn) >= 2 /\ Len(SmsPdu(dIn)) >= 1) =>
                    LET mti == SmsPdu(dIn)[1] % 4
                        whole == Len(SmsPdu(dIn)) >= 3
                    IN /\ mti = 0 => /\ dOut.recipient = Absent
                                     /\ whole => dOut.sender # Absent
                       /\ mti = 1 => /\ dOut.sender = Absent
                                     /\ whole => dOut.recipient # Absent
                       /\ mti \in {2, 3} => dOut.sender = Absent /\ dOut.recipient = Absent

\* C19: decode_sms returns absent on status 0x00 or 0xFF whatever follows and a
\* result on every other status; type bits 00 give a sender and never a
\* recipient, 01 a recipient and never a sender, any other value neither.
C19_SmsLayout == SmsRule(1)

\* the same for the records of two bytes or more
C19_SmsLayoutFromTwoBytes == SmsRule(2)

\* a received message gave a sender, a sent one a recipient, one of type bits
\* 10 only status and service centre
C19_DeliverDecoded ==
    dName = "decode_sms" /\ dIn = S_DELIVER /\ dOut.t = "dict" /\ dOut.sender # Absent

C19_SubmitDecoded ==
    dName = "decode_sms" /\ dIn = S_SUBMIT /\ dOut.t = "dict" /\ dOut.recipient # Absent

C19_OtherTypeDecoded ==
    dName = "decode_sms" /\ dIn = <<1, 0, 2, 0, 0>> /\ dOut = SmsDict(1, NoneV)

----------------------------------------------------------------------------
(* Properties of the record geometry *)

\* where the file-descriptor tag 0x82 stands in a control template d, counted
\* from 1: first, or first inside the outer template 62 LL; 0 if in neither place
DescriptorAt(d, wrapped) ==
    IF Len(d) >= 1 /\ d[1] = 130 THEN 1
    ELSE IF wrapped /\ Len(d) >= 3 /\ d[1] = 98 /\ d[3] = 130 THEN 3
    ELSE 0

\* the record loop of EF_ADN has just been entered under the USIM dialect on a
\* template with a whole five-byte descriptor: the geometry is the descriptor's,
\* read at the places of its value the code reads (lines 915, 917)
UsimGeometryFromDescriptor(wrapped) ==
    LET at == DescriptorAt(data, wrapped)
    IN (/\ pc = "walk" /\ lastOut = "geometry" /\ use_usim /\ Files[fi].name = "ADN"
        /\ at > 0 /\ Len(data) >= at + 6 /\ data[at + 1] >= 5) =>
            /\ record_len = data[at + 3] * 256 + data[at + 4]
            /\ num_records = data[at + 5]

\* C20: a file selected under the USIM dialect whose control template holds the
\* descriptor tag 0x82, bare or in the usual form 62 LL 82 05 .., is walked with
\* the record length and count of the descriptor, not with 34 and 250.
C20_DescriptorGeometry == UsimGeometryFromDescriptor(TRUE)

\* the same for a template that begins with the descriptor tag
C20_BareDescriptorGeometry == UsimGeometryFromDescriptor(FALSE)

\* the walk of EF_ADN was entered on the bare descriptor 82 05 42 21 00 04 03
C20_BareDescriptorUsed ==
    /\ pc = "walk" /\ lastOut = "geometry" /\ use_usim /\ Files[fi].name = "ADN"
    /\ data = F_BARE /\ record_len = 33 * 256 /\ num_records = 4

\* where a walk over the top-level tags of d, every tag other than 0x82 skipped
\* by 1 + 1 + its declared length, finds the tag 0x82, counted from 1 and
\* starting at the i-th byte; 0 if it finds none
RECURSIVE TopLevelDescriptor(_, _)
TopLevelDescriptor(d, i) ==
    IF i + 1 > Len(d) THEN 0
    ELSE IF d[i] = 130 THEN i
    ELSE TopLevelDescriptor(d, i + 2 + d[i + 1])

\* the ADN geometry of dIn under the USIM dialect is the one of the top-level
\* descriptor, the default without one, for the templates whose top-level tags
\* are all in tags
ScanByLength(tags) ==
    (/\ dName = "geometry" /\ dArg = <<"ADN", TRUE>> /\ dIn # <<>>
     /\ TlvTags(dIn, 0, Len(dIn)) \subseteq tags) =>
        LET at == TopLevelDescriptor(dIn, 1)
        IN /\ at = 0 => /\ ~dOut.raise
                        /\ dOut.record_len = 34 /\ dOut.num_records = 250
           /\ (at > 0 /\ Len(dIn) >= at + 5 /\ dIn[at + 1] >= 5) =>
                 /\ ~dOut.raise
                 /\ dOut.record_len = dIn[at + 3] * 256 + dIn[at + 4]
                 /\ dOut.num_records = dIn[at + 5]

\* C21: in the USIM geometry scan every tag other than 0x82 is skipped by
\* 1 + 1 + its declared length, so that a byte 0x82 inside another tag is not
\* taken for the descriptor; without a descriptor the geometry is 34 and 250.
C21_ScanSkipsByLength == ScanByLength(0..255)

\* the same for the templates made of the descriptor and the tags of line 920
C21_KnownTagsSkippedByLength == ScanByLength(FcpKnownTags \cup {130})

\* a byte 0x82 in the value of a tag 80 was stepped over and the descriptor
\* after it used
C21_KnownTagStepped ==
    /\ dName = "geometry" /\ dArg = <<"ADN", TRUE>>
    /\ dIn = <<128, 2, 130, 5, 130, 5, 66, 0, 4, 3>>
    /\ dOut.record_len = 4 /\ dOut.num_records = 3

\* the default geometry of the block of the file called name
\* (lines 904-905, 970-971, 1011-1012, 1052-1053, 1098-1099)
DefaultGeometry(name) ==
    LET k == CHOOSE n \in 1..NumFiles : Files[n].name = name
    IN <<IF name = "SMS" THEN 176 ELSE 34, Files[k].dflt>>

\* geometry derivation ends without an exception on the inputs of kind `which`,
\* and on an empty response it gives the default
GeometryTotal(which(_, _)) ==
    (dName = "geometry" /\ which(dArg[1], dArg[2])) =>
        /\ ~dOut.raise
        /\ dIn = <<>> => <<dOut.record_len, dOut.num_records>> = DefaultGeometry(dArg[1])

AnyBlock(name, use_usim_) == TRUE

NotUsimAdn(name, use_usim_) == ~(name = "ADN" /\ use_usim_)

\* C22: whatever the selection response and the dialect, empty and truncated
\* ones included, geometry derivation ends without failing.
C22_GeometryTotal == GeometryTotal(AnyBlock)

\* the same for every block but EF_ADN under the USIM dialect
C22_GeometryTotalOutsideUsimAdn == GeometryTotal(NotUsimAdn)

\* the record loop of a file of `names` has just been entered under the USIM
\* dialect on a template that begins with a whole five-byte descriptor: the
\* geometry is the descriptor's
UsimGeometryOf(names) ==
    (/\ pc = "walk" /\ lastOut = "geometry" /\ use_usim /\ Files[fi].name \in names
     /\ DescriptorAt(data, FALSE) = 1 /\ Len(data) >= 7 /\ data[2] >= 5) =>
        /\ record_len = data[4] * 256 + data[5]
        /\ num_records = data[6]

\* C23: for every record file selected under the USIM dialect (ADN, FDN, SDN,
\* LND, SMS) record length and count come from the control template, not from
\* the fixed offsets of a Legacy response.
C23_UsimGeometryFromTemplate == UsimGeometryOf({"ADN", "FDN", "SDN", "LND", "SMS"})

\* the walk of EF_FDN was entered under the USIM dialect on the descriptor
\* 82 05 42 21 00 04 03 with the geometry of the Legacy offsets
C23_FdnLegacyOffsets ==
    /\ pc = "walk" /\ lastOut = "geometry" /\ use_usim /\ Files[fi].name = "FDN"
    /\ data = F_BARE /\ record_len = 34 /\ num_records = (66 * 256 + 33) \div 34

----------------------------------------------------------------------------
(* Properties of the command frames *)

\* the last command is a select by application identifier
IsSelectByAid(apdu) == IsSelect(apdu) /\ apdu[3] = 4

\* the length byte of a select by application identifier is the number of
\* bytes after it
AidLcMatches == IsSelectByAid(lastCmd) => lastCmd[5] = Len(lastCmd) - 5

\* C24: every select by application identifier carries 5 to 16 identifier
\* bytes, whatever the directory record declares, and Lc is their number.
C24_AidLength ==
    IsSelectByAid(lastCmd) => (Len(lastCmd) - 5 \in 5..16 /\ lastCmd[5] = Len(lastCmd) - 5)

\* the file a select by file id is sent for at step pc_ of the block of file k
SelectedAt(pc_, k) ==
    IF pc_ \in {"ef", "u_ef"} THEN Files[k].fid
    ELSE IF pc_ = "df" THEN DF_GSM
    ELSE IF pc_ = "u_dir" THEN EF_DIR
    ELSE MF

\* C26: a select by file id is class (A0 Legacy, 00 USIM), A4, 00, the P2 of the
\* dialect (00 Legacy, 04 USIM), 02, high byte, low byte of the identifier; a
\* READ RECORD is class, B2, the record number from 1, 04, the length asked
\* for; a READ BINARY is class, B0, offset high, offset low, the length.
C26_Frames ==
    [][LET c == lastCmd'
           f == SelectedAt(pc, fi)
       IN /\ (IsSelect(c) /\ ~IsSelectByAid(c)) =>
                c = IF pc \in {"u_dir", "u_ef"}
                    THEN <<0, 164, 0, 4, 2, f \div 256, f % 256>>
                    ELSE <<160, 164, 0, 0, 2, f \div 256, f % 256>>
          /\ IsReadRecord(c) =>
                /\ c[3] >= 1
                /\ c = IF pc = "u_rec" THEN <<0, 178, 1, 4, 32>>
                       ELSE IF pc = "rr1" THEN <<160, 178, 1, 4, record_len>>
                       ELSE <<IF use_usim THEN 0 ELSE 160, 178, rec, 4, record_len>>
          /\ IsReadBinary(c) => c = <<160, 176, 0, 0, Files[fi].arg>>]_vars

\* record 2 of a file was read under the USIM dialect after a select of it
\* under that dialect
C26_UsimRecordRead ==
    /\ IsReadRecord(lastCmd) /\ lastCmd[1] = 0 /\ lastCmd[3] = 2 /\ lastCmd[4] = 4
    /\ lastSel = <<0, 164, 0, 4, 2, Files[fi].fid \div 256, Files[fi].fid % 256>>

\* C30: every element of every command frame is a byte, the record number and
\* the length P3 of a READ RECORD among them, whatever the geometry.
C30_FrameBytes == \A k \in 1..Len(lastCmd) : lastCmd[k] \in 0..255

\* the same for every element but the length P3 of a READ RECORD
C30_FrameBytesButLength ==
    \A k \in 1..Len(lastCmd) : (IsReadRecord(lastCmd) /\ k = 5) \/ lastCmd[k] \in 0..255

----------------------------------------------------------------------------
(* Properties of the fallback to the USIM application *)

\* select_usim returns False in this step: its last select-by-AID, GET RESPONSE
\* included, did not end in SW1 = 90 (lines 119-123, 163-167); read_all still
\* holds the status of the Legacy select of the file in sw1
UsimSelectFails == pc \in {"u_def", "u_aid"} /\ ~inGR' /\ lastSW'[1] # 144

\* no record loop follows a failed select_usim when the Legacy select ended in
\* a status of the set legacy
NoWalkAfterFailure(legacy) == (UsimSelectFails /\ sw1 \in legacy) => pc' # "walk"

\* C31: when the Legacy select of a record file did not end in success and
\* select_usim reports failure, no READ RECORD is sent for that file, whatever
\* the status of the Legacy select was, 61 xx included.
C31_NoReadAfterFailedFallback == [][NoWalkAfterFailure(0..255)]_vars

\* the same for every status of the Legacy select but 61 xx
C31_NoReadAfterFailedFallbackBut61 == [][NoWalkAfterFailure((0..255) \ {97})]_vars

\* a select_usim that failed after a Legacy select answered 6A 82
C31_FallbackFailed == pc = "mf" /\ fi > 13 /\ sw1 = 106 /\ lastCmd # <<>> /\ lastCmd[1] = 0 /\ lastSW[1] # 144

\* the last exchange of a select-by-AID, its GET RESPONSE included, is this step
AidSelectEnds == pc \in {"u_def", "u_aid"} /\ ~inGR'

\* the identifier carried by the select-by-AID that ends in this step
CarriedAid ==
    LET sel == IF IsSelectByAid(lastCmd') THEN lastCmd' ELSE lastCmd
    IN SubSeq(sel, 6, Len(sel))

\* the fields is_usim and usim_aid over one step; sticky: while is_usim holds
\* the identifier changes only with a select-by-AID that ends in success
UsimFields(sticky) ==
    /\ is_usim => is_usim'
    /\ is_usim' => (usim_aid' # <<>> /\ usim_aid'[1] # <<>>)
    /\ (~is_usim /\ is_usim') => (AidSelectEnds /\ lastSW'[1] = 144)
    /\ (AidSelectEnds /\ lastSW'[1] = 144) => (is_usim' /\ usim_aid' = <<CarriedAid>>)
    /\ AidSelectEnds => (pc' = "u_ef" <=> lastSW'[1] = 144)
    /\ (sticky /\ is_usim /\ ~(AidSelectEnds /\ lastSW'[1] = 144)) => usim_aid' = usim_aid

\* C32: is_usim implies that usim_aid holds a non-empty identifier, the one
\* carried by the select-by-AID that ended in success; is_usim is never set
\* back to False; select_usim returns True exactly when its last select-by-AID
\* ended with SW1 = 90.
C32_UsimFields == [][UsimFields(TRUE)]_vars

\* the same, the identifier being compared at the successful select only
C32_UsimFieldsAtSelect == [][UsimFields(FALSE)]_vars

\* a discovered identifier was selected with success
C32_DiscoveredAidSelected ==
    is_usim /\ pc = "u_ef" /\ usim_aid = <<(<<160, 0, 0, 0, 135>>)>> /\ lastSW[1] = 144

----------------------------------------------------------------------------
(* Further properties of the decoders *)

\* the three country code nibbles of group g are all the filler 0xF
PlmnNoCountry(g) == LowNibble(g[1]) = 15 /\ HighNibble(g[1]) = 15 /\ LowNibble(g[2]) = 15

\* C25: decode_plmn gives no entry for a group whose three country code
\* nibbles are all 0xF, FF FF FF or not: its entries are as many as the other
\* complete groups.
C25_NoCountryNoEntry ==
    dName = "decode_plmn" =>
        Len(dOut.l) = Len(SelectSeq(PlmnGroups(dIn), LAMBDA g : ~PlmnNoCountry(g)))

\* the widths of the validity period the two bits may select: 00 none, 10 the
\* 1-byte form, 11 the 7-byte form, 01 one of the three
VpWidths(bits) ==
    IF bits = 0 THEN {0} ELSE IF bits = 2 THEN {1} ELSE IF bits = 3 THEN {7} ELSE {0, 1, 7}

\* the message of result out is the text of the user data whose length byte is
\* the x-th byte of pdu, counted from 0, under coding scheme dcs; no message if
\* pdu ends before it
UserDataAt(out, pdu, x, dcs) ==
    IF x < Len(pdu)
    THEN out.message = StrV(SmsUserData(dcs, SubSeq(pdu, x + 2, Len(pdu)), pdu[x + 1]))
    ELSE out.message = Absent

\* C27: in a sent message (type bits 01) with d destination digits the
\* user-data length is read at PDU offset 4 + ceil(d/2) + 2 + w, w the width the
\* validity-period bits 4-3 select among 0, 1 and 7.
C27_SubmitUserDataOffset ==
    (dName = "decode_sms" /\ dOut.t = "dict" /\ Len(dIn) >= 2 /\ Len(SmsPdu(dIn)) >= 3
       /\ SmsPdu(dIn)[1] % 4 = 1) =>
        LET pdu == SmsPdu(dIn)
            base == 4 + (pdu[3] + 1) \div 2
        IN base + 2 < Len(pdu) =>
              \E w \in VpWidths((pdu[1] \div 8) % 4) :
                  UserDataAt(dOut, pdu, base + 2 + w, pdu[base + 2])

\* a sent message with the 7-byte validity period gave its text "A"
C27_AbsolutePeriodSkipped ==
    /\ dName = "decode_sms"
    /\ dIn = <<7, 0, 25, 0, 4, 129, 33, 67, 0, 8, 1, 2, 3, 4, 5, 6, 7, 2, 0, 65>>
    /\ dOut.t = "dict" /\ dOut.message = StrV(<<65>>)

\* the text of user data ud of announced length udl under the encoding that
\* bits 3-2 of the coding scheme select: 00 the 7-bit unpacking of udl
\* characters, 10 the 16-bit characters of the first udl bytes, 01 and 11 the
\* dump "[Data: ..]" of the first udl bytes
UserText(bits, ud, udl) ==
    LET first == SubSeq(ud, 1, Min(udl, Len(ud)))
    IN IF bits = 0 THEN decode_gsm7(ud, udl).s
       ELSE IF bits = 2 THEN Utf16BeDecode(first)
       ELSE <<91, 68, 97, 116, 97, 58, 32>> \o ToHexString(first) \o <<93>>

\* where the user-data length byte of pdu stands, counted from 0: after the
\* sender and the 9 bytes up to the timestamp in a received message, after the
\* recipient, 2 bytes and the validity period in a sent one; the coding scheme
\* stands at `dcs`
UserDataLayout(pdu) ==
    IF pdu[1] % 4 = 0
    THEN [known |-> 3 + (pdu[2] + 1) \div 2 + 7 < Len(pdu),
          dcs |-> 3 + (pdu[2] + 1) \div 2 + 1, udl |-> 3 + (pdu[2] + 1) \div 2 + 9]
    ELSE [known |-> 4 + (pdu[3] + 1) \div 2 + 2 < Len(pdu),
          dcs |-> 4 + (pdu[3] + 1) \div 2 + 1,
          udl |-> 4 + (pdu[3] + 1) \div 2 + 2 + SmsVpWidth(pdu[1])]

\* C28: in a received and in a sent message alike the text is UserText of
\* bits 3-2 of the coding scheme, the user data and its announced length, and
\* of nothing else.
C28_TextByCodingScheme ==
    (dName = "decode_sms" /\ dOut.t = "dict" /\ Len(dIn) >= 2 /\ Len(SmsPdu(dIn)) >= 3
       /\ SmsPdu(dIn)[1] % 4 \in {0, 1}) =>
        LET pdu == SmsPdu(dIn)
            at == UserDataLayout(pdu)
        IN (at.known /\ at.udl < Len(pdu)) =>
              dOut.message = StrV(UserText((pdu[at.dcs + 1] \div 4) % 4,
                                           SubSeq(pdu, at.udl + 2, Len(pdu)), pdu[at.udl + 1]))

\* a received message under coding scheme 04 gave the dump of its two bytes
C28_OpaqueDump ==
    /\ dName = "decode_sms"
    /\ dIn = <<1, 0, 4, 4, 145, 33, 67, 0, 4, 66, 16, 64, 33, 67, 101, 0, 2, 200, 50>>
    /\ dOut.t = "dict"
    /\ dOut.message = StrV(<<91, 68, 97, 116, 97, 58, 32, 67, 56, 32, 51, 50, 93>>)

\* the digit nibbles of a 9-byte IMSI buffer: the high nibble of byte 1, then
\* low and high nibble of bytes 2..8, the fillers 0xF dropped
ImsiNibbles(d) ==
    SelectSeq(<<HighNibble(d[2])>>, LAMBDA n : n # 15) \o NonFiller(SubSeq(d, 3, 9))

\* C29: decode_imsi is absent below 9 bytes and a string from 9 bytes on,
\* whatever the count byte; on 9 bytes with count 8 and decimal digit nibbles
\* the string is those nibbles, the low nibble of byte 1 left out: 15 digits
\* when none is a filler.
C29_ImsiDigits ==
    dName = "decode_imsi" =>
        /\ Len(dIn) < 9 => dOut = NoneV
        /\ Len(dIn) >= 9 => dOut.t = "str"
        /\ (Len(dIn) = 9 /\ dIn[1] = 8
              /\ \A k \in 1..Len(ImsiNibbles(dIn)) : ImsiNibbles(dIn)[k] < 10) =>
                 /\ dOut.s = [k \in 1..Len(ImsiNibbles(dIn)) |-> 48 + ImsiNibbles(dIn)[k]]
                 /\ NoFiller(SubSeq(dIn, 3, 9)) /\ HighNibble(dIn[2]) # 15 => Len(dOut.s) = 15

\* the IMSI 08 29 43 10 32 54 76 98 10 gave its 15 digits
C29_ImsiDecoded ==
    /\ dName = "decode_imsi" /\ dIn = S_IMSI
    /\ dOut = StrV(<<50, 51, 52, 48, 49, 50, 51, 52, 53, 54, 55, 56, 57, 48, 49>>)

\* a buffer whose count byte is above the bytes it has was decoded
C29_CountPastEnd ==
    dName = "decode_imsi" /\ Len(dIn) >= 9 /\ dIn[1] > Len(dIn) - 1 /\ dOut.t = "str"

----------------------------------------------------------------------------
(* The two number decoders on one trailer *)

\* the last 14 bytes of d
Trailer(d) == SubSeq(d, Len(d) - 13, Len(d))

\* the ten digit bytes of a trailer
DigitBytes(t) == SubSeq(t, 3, 12)

\* a trailer as a card writes it: decimal digits only, and filler bytes behind
\* the digit bytes that its BCD length covers
PlainTrailer(t) ==
    /\ \A k \in 1..Len(NonFiller(DigitBytes(t))) : NonFiller(DigitBytes(t))[k] < 10
    /\ \A k \in (t[1] + 2)..12 : t[k] = 255

\* decode_msisdn returned the number string decode_bcd_number returns on the
\* same trailer, for the trailers of the set ts with a BCD length in 1..11
SameNumber(ts(_)) ==
    (/\ dName = "decode_msisdn" /\ Len(dIn) >= 14
     /\ Trailer(dIn)[1] \in 1..11 /\ ts(Trailer(dIn)))
        => LET contact == decode_bcd_number(Trailer(dIn), TRUE)
           IN IF dOut = NoneV THEN contact = NoneV
              ELSE dOut.t = "dict" /\ contact = StrV(dOut.number)

AnyTrailer(t) == TRUE

\* C33: on every 14-byte trailer with a BCD length byte in 1..11 decode_msisdn
\* and decode_bcd_number return the same number string.
C33_SameNumber == SameNumber(AnyTrailer)

\* the same on the trailers of PlainTrailer
C33_SameNumberOnPlainTrailers == SameNumber(PlainTrailer)

\* the trailer 05 91 21 43 65 F7 FF .. FF decoded by decode_msisdn
C33_PlainTrailerDecoded ==
    /\ dName = "decode_msisdn" /\ dIn = SubSeq(S_MSISDN, 5, 18)
    /\ dOut.t = "dict" /\ dOut.number = <<43, 49, 50, 51, 52, 53, 54, 55>>

====
